---- MODULE Spec2Model ----
(***************************************************************************)
(* Model of the skill factory of sandbox-rs: FactoryStep, FactorySession,  *)
(* FactorySessions (src/sandbox-rs/src/skills/factory.rs) and the HTTP     *)
(* handlers in front of it (src/sandbox-rs/src/handlers/factory.rs).       *)
(*                                                                         *)
(* A Rust String is the sequence of its UTF-8 bytes, an ASCII byte written *)
(* as the one-character string of its character; Option<T> is a sequence   *)
(* of length 0 (None) or 1 (Some); an Instant is a tick count.             *)
(***************************************************************************)
EXTENDS Integers, Sequences, FiniteSets, TLC

\* ------------------------------------------------------------------ bounds
MaxIds == 2
MaxTime == 2
TicksPerSec == 2
MaxAgeSecs == 1
MaxCalls == 4
MaxDialogueCalls == 11
MaxThreadCalls == 4
NumThreads == 2
MaxTokens == 4
MaxRegistryCalls == 2

\* The tokens of a description given to the codec
MaxDescriptionTokens == 2

\* The tokens of a skill name given to the validator
MaxNameTokens == 4

\* The tokens of a goal the factory turns into a skill name
MaxGoalTokens == 3

Ids == 1..MaxIds
Threads == 1..NumThreads
MaxAges == 0..MaxAgeSecs

None == <<>>
Some(x) == <<x>>
IsSome(o) == Len(o) = 1
IsNone(o) == Len(o) = 0
Unwrap(o) == o[1]

\* The inputs the callers send.
Inputs == { <<" ", "Y">>, <<"a", "-", ">", "b">> }
InitialInputs == {None} \cup {Some(i) : i \in Inputs}

\* ----------------------------------------------------------------- strings
UpperChars == <<"A","B","C","D","E","F","G","H","I","J","K","L","M",
                "N","O","P","Q","R","S","T","U","V","W","X","Y","Z">>
LowerChars == <<"a","b","c","d","e","f","g","h","i","j","k","l","m",
                "n","o","p","q","r","s","t","u","v","w","x","y","z">>
WhiteSpace == {" ", "\n", "\t", "\r"}

LowerChar(c) ==
    IF \E i \in 1..Len(UpperChars) : UpperChars[i] = c
    THEN LowerChars[CHOOSE i \in 1..Len(UpperChars) : UpperChars[i] = c]
    ELSE c

MatchAt(s, pat, p) ==
    /\ p + Len(pat) <= Len(s)
    /\ \A k \in 1..Len(pat) : s[p + k] = pat[k]

\* U+0130, capital I with dot above: the two bytes C4 B0. Its lower case is
\* U+0069 U+0307, the three bytes 69 CC 87, so to_lowercase moves every
\* byte offset behind it by one
DottedI == <<"C4", "B0">>
LoweredDottedI == <<"i", "CC", "87">>

\* The bytes 10xxxxxx, which continue a character
ContinuationBytes == {"B0", "87", "A9"}

\* str::is_char_boundary
IsCharBoundary(s, p) ==
    \/ p = 0
    \/ p = Len(s)
    \/ p < Len(s) /\ s[p + 1] \notin ContinuationBytes

\* The pieces lo..hi of a sequence of strings, joined; the recursion halves
\* the range, so that its depth stays small on long strings
RECURSIVE FlatRange(_, _, _)
FlatRange(pieces, lo, hi) ==
    IF lo > hi THEN <<>>
    ELSE IF lo = hi THEN pieces[lo]
    ELSE FlatRange(pieces, lo, (lo + hi) \div 2)
             \o FlatRange(pieces, (lo + hi) \div 2 + 1, hi)

\* Iterator<Item = String>::collect::<String>()
Flatten(pieces) == FlatRange(pieces, 1, Len(pieces))

\* str::to_lowercase, what the byte at i gives: U+0130 gives its three bytes
\* at its first byte and nothing at its second
LowerFrom(s, i) ==
    IF MatchAt(s, DottedI, i - 1) THEN LoweredDottedI
    ELSE IF i > 1 /\ MatchAt(s, DottedI, i - 2) THEN <<>>
    ELSE <<LowerChar(s[i])>>

\* str::to_lowercase
ToLowercase(s) == Flatten([i \in 1..Len(s) |-> LowerFrom(s, i)])

\* &s[a..b] with 0-based byte offsets, b exclusive
Slice(s, a, b) == SubSeq(s, a + 1, b)
SliceFrom(s, a) == SubSeq(s, a + 1, Len(s))

\* The first index from i on, and the last one down from j, at which s
\* holds no whitespace
RECURSIVE SkipForward(_, _)
SkipForward(s, i) ==
    IF i > Len(s) \/ s[i] \notin WhiteSpace THEN i ELSE SkipForward(s, i + 1)

RECURSIVE SkipBackward(_, _)
SkipBackward(s, j) ==
    IF j < 1 \/ s[j] \notin WhiteSpace THEN j ELSE SkipBackward(s, j - 1)

\* str::trim
Trim(s) == SubSeq(s, SkipForward(s, 1), SkipBackward(s, Len(s)))

\* str::rfind: the 0-based offset of the last match
FindLast(s, pat) ==
    LET hits == {p \in 0..Len(s) : MatchAt(s, pat, p)}
    IN  IF hits = {} THEN None
        ELSE Some(CHOOSE p \in hits : \A q \in hits : q <= p)

\* str::find: the 0-based offset of the first match
Find(s, pat) ==
    LET hits == {p \in 0..Len(s) : MatchAt(s, pat, p)}
    IN  IF hits = {} THEN None
        ELSE Some(CHOOSE p \in hits : \A q \in hits : p <= q)

\* str::contains
Contains(s, pat) == IsSome(Find(s, pat))

TriggerSeparators == {",", "\n", ";"}

\* str::split(&[',', '\n', ';'][..]): the pieces between separators,
\* empty pieces included
RECURSIVE SplitFrom(_, _, _)
SplitFrom(s, i, cur) ==
    IF i > Len(s) THEN <<cur>>
    ELSE IF s[i] \in TriggerSeparators
         THEN <<cur>> \o SplitFrom(s, i + 1, <<>>)
         ELSE SplitFrom(s, i + 1, Append(cur, s[i]))

Split(s) == SplitFrom(s, 1, <<>>)

\* The pieces trimmed, the empty ones kept
ParseTriggersKeepsEmpty(input) ==
    [i \in 1..Len(Split(input)) |-> Trim(Split(input)[i])]

\* .map(|s| s.trim().to_string()).filter(|s| !s.is_empty()).collect()
ParseTriggers(input) ==
    LET trimmed == [i \in 1..Len(Split(input)) |-> Trim(Split(input)[i])]
    IN  SelectSeq(trimmed, LAMBDA p : p # <<>>)

\* ------------------------------------------------------------- FactoryStep
FactorySteps == {"Goal", "Trigger", "Example", "Complexity", "EdgeCases",
                 "Confirm", "Done"}

\* FactoryStep::next with the EdgeCases step left out
StepNextSkips(step) ==
    CASE step = "Goal"       -> "Trigger"
      [] step = "Trigger"    -> "Example"
      [] step = "Example"    -> "Complexity"
      [] step = "Complexity" -> "Confirm"
      [] step = "EdgeCases"  -> "Confirm"
      [] step = "Confirm"    -> "Done"
      [] step = "Done"       -> "Done"

\* FactoryStep::next with Done leading back to Goal
StepNextDoneRestarts(step) ==
    CASE step = "Goal"       -> "Trigger"
      [] step = "Trigger"    -> "Example"
      [] step = "Example"    -> "Complexity"
      [] step = "Complexity" -> "EdgeCases"
      [] step = "EdgeCases"  -> "Confirm"
      [] step = "Confirm"    -> "Done"
      [] step = "Done"       -> "Goal"

\* FactoryStep::next
StepNext(step) ==
    CASE step = "Goal"       -> "Trigger"
      [] step = "Trigger"    -> "Example"
      [] step = "Example"    -> "Complexity"
      [] step = "Complexity" -> "EdgeCases"
      [] step = "EdgeCases"  -> "Confirm"
      [] step = "Confirm"    -> "Done"
      [] step = "Done"       -> "Done"

\* ---------------------------------------------------------- FactoryAnswers
AnswerFields == {"goal", "triggers", "example_input", "example_output",
                 "complexity", "edge_cases"}

\* FactoryAnswers::default
DefaultAnswers == [f \in AnswerFields |-> None]

\* FactorySession::new that stores the goal but still asks for it
NewSessionAtGoal(id, initial_input, t) ==
    IF IsSome(initial_input)
    THEN [id |-> id, step |-> "Goal",
          answers |-> [DefaultAnswers EXCEPT !.goal = Some(Unwrap(initial_input))],
          created_at |-> t]
    ELSE [id |-> id, step |-> "Goal", answers |-> DefaultAnswers,
          created_at |-> t]

\* FactorySession::new
NewSession(id, initial_input, t) ==
    IF IsSome(initial_input)
    THEN [id |-> id, step |-> "Trigger",
          answers |-> [DefaultAnswers EXCEPT !.goal = Some(Unwrap(initial_input))],
          created_at |-> t]
    ELSE [id |-> id, step |-> "Goal", answers |-> DefaultAnswers,
          created_at |-> t]

\* ------------------------------------------- continue_session: match arms
P_input == <<"i","n","p","u","t",":">>
P_output == <<"o","u","t","p","u","t",":">>
P_arrow == <<"-",">">>
P_simple == <<"s","i","m","p","l","e">>
P_text == <<"t","e","x","t">>
P_complex == <<"c","o","m","p","l","e","x">>
P_script == <<"s","c","r","i","p","t">>
P_template == <<"t","e","m","p","l","a","t","e">>
P_yes == <<"y","e","s">>
P_y == <<"y">>
P_confirm == <<"c","o","n","f","i","r","m">>

NonEmpty(text) == IF text # <<>> THEN Some(text) ELSE None

\* A Goal arm that trims what it stores
GoalArmTrims(s, input) ==
    [s EXCEPT !.answers.goal = Some(Trim(input)), !.step = StepNext(s.step)]

\* FactoryStep::Goal arm
GoalArm(s, input) ==
    [s EXCEPT !.answers.goal = Some(input), !.step = StepNext(s.step)]

\* FactoryStep::Trigger arm
TriggerArm(s, input) ==
    [s EXCEPT !.answers.triggers = Some(ParseTriggers(input)),
              !.step = StepNext(s.step)]

\* The Example arm indexes the input with offsets found in its lower case:
\* a slice of a str panics when an end is beyond the length or inside a
\* character. Every slice is taken before the first assignment
ParseExamplePanics(input) ==
    LET input_lower == ToLowercase(input)
        in_found == Find(input_lower, P_input)
        out_found == Find(input_lower, P_output)
    IN  /\ IsSome(in_found)
        /\ LET input_pos == Unwrap(in_found)
           IN  \/ ~IsCharBoundary(input, input_pos + 6)
               \/ /\ IsSome(out_found)
                  /\ LET output_pos == Unwrap(out_found)
                     IN  \/ /\ output_pos > input_pos + 6
                            /\ ~IsCharBoundary(input, output_pos)
                         \/ ~IsCharBoundary(input, output_pos + 7)

\* The (example_input, example_output) pair the Example arm stores
ParseExample(input) ==
    LET input_lower == ToLowercase(input)
        in_found == Find(input_lower, P_input)
        out_found == Find(input_lower, P_output)
        arrow_found == Find(input, P_arrow)
    IN  IF IsSome(in_found)
        THEN LET input_pos == Unwrap(in_found)
                 after_input == SliceFrom(input, input_pos + 6)
             IN  IF IsSome(out_found)
                 THEN LET output_pos == Unwrap(out_found)
                          input_text ==
                              IF output_pos > input_pos + 6
                              THEN Trim(Slice(input, input_pos + 6, output_pos))
                              ELSE Trim(after_input)
                          output_text == Trim(SliceFrom(input, output_pos + 7))
                      IN  [example_input |-> Some(input_text),
                           example_output |-> NonEmpty(output_text)]
                 ELSE [example_input |-> Some(Trim(after_input)),
                       example_output |-> None]
        ELSE IF IsSome(arrow_found)
        THEN LET arrow_pos == Unwrap(arrow_found)
                 input_part == Trim(Slice(input, 0, arrow_pos))
                 output_part == Trim(SliceFrom(input, arrow_pos + 2))
             IN  [example_input |-> Some(input_part),
                  example_output |-> NonEmpty(output_part)]
        ELSE [example_input |-> Some(input), example_output |-> None]

\* FactoryStep::Example arm
ExampleArm(s, input) ==
    [s EXCEPT !.answers.example_input = ParseExample(input).example_input,
              !.answers.example_output = ParseExample(input).example_output,
              !.step = StepNext(s.step)]

\* The classification with the keywords of Complex looked for first
ClassifyComplexFirst(input) ==
    LET normalized == ToLowercase(Trim(input))
    IN  IF \/ Contains(normalized, P_complex)
           \/ Contains(normalized, P_script)
           \/ Contains(normalized, P_template)
        THEN "Complex"
        ELSE "Simple"

\* The classification of the Complexity arm
Classify(input) ==
    LET normalized == ToLowercase(Trim(input))
    IN  IF Contains(normalized, P_simple) \/ Contains(normalized, P_text)
        THEN "Simple"
        ELSE IF \/ Contains(normalized, P_complex)
                \/ Contains(normalized, P_script)
                \/ Contains(normalized, P_template)
        THEN "Complex"
        ELSE "Simple"

\* FactoryStep::Complexity arm
ComplexityArm(s, input) ==
    [s EXCEPT !.answers.complexity = Some(Classify(input)),
              !.step = StepNext(s.step)]

\* An EdgeCases arm that moves on without storing the answer
EdgeCasesArmSkips(s, input) == [s EXCEPT !.step = StepNext(s.step)]

\* FactoryStep::EdgeCases arm
EdgeCasesArm(s, input) ==
    [s EXCEPT !.answers.edge_cases = Some(input), !.step = StepNext(s.step)]

\* The test of the Confirm arm without the trim
AffirmativeNoTrim(input) ==
    LET normalized == ToLowercase(input)
    IN  normalized = P_yes \/ normalized = P_y \/ normalized = P_confirm

\* The test of the Confirm arm
Affirmative(input) ==
    LET normalized == ToLowercase(Trim(input))
    IN  normalized = P_yes \/ normalized = P_y \/ normalized = P_confirm

\* A Confirm arm that starts the answers over on a rejection
ConfirmArmClears(s, input) ==
    IF Affirmative(input) THEN [s EXCEPT !.step = "Done"]
    ELSE [s EXCEPT !.step = "Goal", !.answers = DefaultAnswers]

\* FactoryStep::Confirm arm
ConfirmArm(s, input) ==
    IF Affirmative(input) THEN [s EXCEPT !.step = "Done"]
    ELSE [s EXCEPT !.step = "Goal"]

\* A Done arm that reopens the dialogue
DoneArmRestarts(s, input) == [s EXCEPT !.step = "Goal"]

\* FactoryStep::Done arm
DoneArm(s, input) == s

\* match session.step { ... }: the arm selected by `step`, applied to s
Arm(step, s, input) ==
    CASE step = "Goal"       -> GoalArm(s, input)
      [] step = "Trigger"    -> TriggerArm(s, input)
      [] step = "Example"    -> ExampleArm(s, input)
      [] step = "Complexity" -> ComplexityArm(s, input)
      [] step = "EdgeCases"  -> EdgeCasesArm(s, input)
      [] step = "Confirm"    -> ConfirmArm(s, input)
      [] step = "Done"       -> DoneArm(s, input)

\* The body of continue_session on a session that was found
Transition(s, input) == Arm(s.step, s, input)

\* continue_session panics inside the arm of session s
Panics(s, input) == s.step = "Example" /\ ParseExamplePanics(input)

\* ----------------------------------------------------- skills: validation
Digits == {"0", "1", "2", "3", "4", "5", "6", "7", "8", "9"}
LowerLetters == {LowerChars[i] : i \in 1..Len(LowerChars)}

\* Result<T>: Ok(v) or Err(e), e an AppError with the reason it was built for
Ok(v) == [ok |-> TRUE, val |-> v]
Err(kind, why) == [ok |-> FALSE, err |-> kind, why |-> why]

MaxNameLen == 64
MaxDescriptionLen == 1024

\* A validator that lets hyphens follow one another
ValidateSkillNameAnyHyphens(name) ==
    /\ Len(name) # 0
    /\ Len(name) <= MaxNameLen
    /\ \A i \in 1..Len(name) : name[i] \in LowerLetters \cup Digits \cup {"-"}
    /\ name[1] # "-"
    /\ name[Len(name)] # "-"

\* validate_skill_name: Ok exactly when the name has 1 to 64 bytes and
\* matches ^[a-z0-9]+(-[a-z0-9]+)*$
ValidateSkillName(name) ==
    /\ Len(name) # 0
    /\ Len(name) <= MaxNameLen
    /\ \A i \in 1..Len(name) : name[i] \in LowerLetters \cup Digits \cup {"-"}
    /\ name[1] # "-"
    /\ name[Len(name)] # "-"
    /\ \A i \in 1..(Len(name) - 1) : ~(name[i] = "-" /\ name[i + 1] = "-")

\* A validator that rejects the longest description
ValidateDescriptionShort(desc) == Len(desc) # 0 /\ Len(desc) < MaxDescriptionLen

\* validate_description: Ok exactly when the description has 1 to 1024 bytes
ValidateDescription(desc) == Len(desc) # 0 /\ Len(desc) <= MaxDescriptionLen

P_dotdot == <<".", ".">>

\* A check that turns down the empty file name only
ValidateFilenameOnlyEmpty(filename) == filename # <<>>

\* validate_filename
ValidateFilename(filename) ==
    /\ filename # <<>>
    /\ ~Contains(filename, <<"/">>)
    /\ ~Contains(filename, <<"\\">>)
    /\ ~Contains(filename, P_dotdot)

\* The components of a path, the pieces between '/'
RECURSIVE ComponentsFrom(_, _, _)
ComponentsFrom(s, i, cur) ==
    IF i > Len(s) THEN <<cur>>
    ELSE IF s[i] = "/" THEN <<cur>> \o ComponentsFrom(s, i + 1, <<>>)
    ELSE ComponentsFrom(s, i + 1, Append(cur, s[i]))

\* The directory that the components lead to from `path`: an empty one and
\* "." stay, ".." goes up
RECURSIVE Walk(_, _)
Walk(path, comps) ==
    IF comps = <<>> THEN path
    ELSE IF Head(comps) \in {<<>>, <<".">>} THEN Walk(path, Tail(comps))
    ELSE IF Head(comps) = P_dotdot
         THEN Walk(SubSeq(path, 1, Len(path) - 1), Tail(comps))
    ELSE Walk(Append(path, Head(comps)), Tail(comps))

\* skill_dir.join(kind).join(filename) as the file system resolves it, a
\* path below skills_dir given by its components; an absolute file name
\* replaces the directory
JoinPath(dir, filename) ==
    IF filename # <<>> /\ filename[1] = "/"
    THEN <<<<"/">>>> \o Walk(<<>>, ComponentsFrom(filename, 1, <<>>))
    ELSE Walk(dir, ComponentsFrom(filename, 1, <<>>))

\* ------------------------------------------------------ skills: the codec
\* The order of the bytes that occur in names and file names
ByteOrder == <<"\n", " ", "'", "-", ".", "/", "0", "1", "2", "3", "4", "5",
               "6", "7", "8", "9", ":">> \o UpperChars \o <<"\\">> \o LowerChars

Ord(c) == CHOOSE i \in 1..Len(ByteOrder) : ByteOrder[i] = c

\* Ord for String: s < t, byte by byte
StrLess(s, t) ==
    \E k \in 0..Len(s) :
        /\ k <= Len(t)
        /\ \A i \in 1..k : s[i] = t[i]
        /\ \/ k = Len(s) /\ k < Len(t)
           \/ k < Len(s) /\ k < Len(t) /\ Ord(s[k + 1]) < Ord(t[k + 1])

\* Vec::sort on the strings of S
Sorted(S) ==
    LET nth(i) == CHOOSE s \in S : Cardinality({t \in S : StrLess(t, s)}) = i - 1
    IN  [i \in 1..Cardinality(S) |-> nth(i)]

K_name == <<"n","a","m","e">>
K_description == <<"d","e","s","c","r","i","p","t","i","o","n">>
K_license == <<"l","i","c","e","n","s","e">>
K_compatibility == <<"c","o","m","p","a","t","i","b","i","l","i","t","y">>
K_metadata == <<"m","e","t","a","d","a","t","a">>
Y_null == <<"n","u","l","l">>
Y_true == <<"t","r","u","e">>
Y_false == <<"f","a","l","s","e">>
P_dashes == <<"-", "-", "-">>
P_colon == <<":", " ">>

\* serde_yaml writes a string as a plain scalar when it reads back as the
\* same string: here a text of letters, digits and hyphens that begins with
\* a letter and is no word of YAML
PlainSafe(s) ==
    /\ s # <<>>
    /\ s[1] \in LowerLetters \cup {UpperChars[i] : i \in 1..Len(UpperChars)}
    /\ \A i \in 1..Len(s) :
           LowerChar(s[i]) \in LowerLetters \cup Digits \cup {"-"}
    /\ ~(Len(s) <= Len(Y_false) /\ ToLowercase(s) \in {Y_null, Y_true, Y_false})

RECURSIVE DoubleQuotes(_)
DoubleQuotes(s) ==
    IF s = <<>> THEN <<>>
    ELSE IF Head(s) = "'" THEN <<"'", "'">> \o DoubleQuotes(Tail(s))
    ELSE <<Head(s)>> \o DoubleQuotes(Tail(s))

\* serde_yaml::to_string of one string: plain, or between single quotes
YamlScalar(s) ==
    IF PlainSafe(s) THEN s ELSE <<"'">> \o DoubleQuotes(s) \o <<"'">>

YamlString(key, s) == key \o P_colon \o YamlScalar(s) \o <<"\n">>

\* an Option<..> field, which is None in every document the registry writes
YamlOption(key, o) ==
    IF IsSome(o) THEN YamlString(key, Unwrap(o))
    ELSE key \o P_colon \o Y_null \o <<"\n">>

\* serde_yaml::to_string(meta): the fields of SkillMeta in their order
ToYaml(meta) ==
    YamlString(K_name, meta.name) \o YamlString(K_description, meta.description)
    \o YamlOption(K_license, meta.license)
    \o YamlOption(K_compatibility, meta.compatibility)
    \o YamlOption(K_metadata, meta.metadata)

\* format_skill_md: format!("---\n{}---\n\n{}", frontmatter, body)
FormatSkillMd(meta, body) ==
    P_dashes \o <<"\n">> \o ToYaml(meta) \o P_dashes \o <<"\n", "\n">> \o body

\* The lines of s from index i on
RECURSIVE LinesFrom(_, _)
LinesFrom(s, i) ==
    LET ends == {j \in i..Len(s) : s[j] = "\n"}
        end == CHOOSE j \in ends : \A k \in ends : j <= k
    IN  IF ends = {} THEN <<SubSeq(s, i, Len(s))>>
        ELSE <<SubSeq(s, i, end - 1)>> \o LinesFrom(s, end + 1)

\* The lines of a YAML text that hold something
Lines(s) == SelectSeq(LinesFrom(s, 1), LAMBDA l : Trim(l) # <<>>)

\* The text between single quotes read back, None when a quote in it
\* stands alone
RECURSIVE Unquote(_)
Unquote(s) ==
    IF s = <<>> THEN Some(<<>>)
    ELSE IF Head(s) # "'"
         THEN LET rest == Unquote(Tail(s))
              IN  IF IsSome(rest) THEN Some(<<Head(s)>> \o Unwrap(rest)) ELSE None
    ELSE IF Len(s) >= 2 /\ s[2] = "'"
         THEN LET rest == Unquote(SubSeq(s, 3, Len(s)))
              IN  IF IsSome(rest) THEN Some(<<"'">> \o Unwrap(rest)) ELSE None
    ELSE None

\* One scalar read back: null, a quoted string or a plain one
YamlValue(text) ==
    IF text = <<>> \/ text = Y_null THEN Ok(None)
    ELSE IF text[1] = "'"
         THEN IF Len(text) >= 2 /\ text[Len(text)] = "'"
                 /\ IsSome(Unquote(SubSeq(text, 2, Len(text) - 1)))
              THEN Ok(Some(Unwrap(Unquote(SubSeq(text, 2, Len(text) - 1)))))
              ELSE Err("Yaml", "quote")
    ELSE Ok(Some(text))

\* One line of a block mapping: key, colon, scalar
YamlEntry(line) ==
    LET colon == Find(line, P_colon)
    IN  IF IsSome(colon)
        THEN LET value == YamlValue(Trim(SliceFrom(line, Unwrap(colon) + 2)))
             IN  [ok |-> value.ok, key |-> Slice(line, 0, Unwrap(colon)),
                  value |-> IF value.ok THEN value.val ELSE None]
        ELSE IF line[Len(line)] = ":"
        THEN [ok |-> TRUE, key |-> Slice(line, 0, Len(line) - 1), value |-> None]
        ELSE [ok |-> FALSE, key |-> <<>>, value |-> None]

\* The lines of a block mapping decoded one by one
Entries(lines) == [i \in 1..Len(lines) |-> YamlEntry(lines[i])]

\* The value under `key`, None when the mapping has no such key
Field(entries, key) ==
    IF \E i \in 1..Len(entries) : entries[i].key = key
    THEN entries[CHOOSE i \in 1..Len(entries) : entries[i].key = key].value
    ELSE None

\* SkillMeta from the entries: name and description are required strings,
\* the other fields default to None, unknown keys are passed over
Deserialize(entries) ==
    IF \E i \in 1..Len(entries) : ~entries[i].ok
    THEN Err("Yaml", "syntax")
    ELSE IF \E i, j \in 1..Len(entries) :
                i < j /\ entries[i].key = entries[j].key
    THEN Err("Yaml", "duplicate field")
    ELSE IF \/ IsNone(Field(entries, K_name))
            \/ IsNone(Field(entries, K_description))
    THEN Err("Yaml", "missing field")
    ELSE Ok([name |-> Unwrap(Field(entries, K_name)),
             description |-> Unwrap(Field(entries, K_description)),
             license |-> Field(entries, K_license),
             compatibility |-> Field(entries, K_compatibility),
             metadata |-> Field(entries, K_metadata)])

\* serde_yaml::from_str::<SkillMeta>
FromYaml(text) == Deserialize(Entries(Lines(text)))

\* s cut at the first occurrence of pat, when there is one
SplitOnce(s, pat) ==
    LET at == Find(s, pat)
    IN  IF IsNone(at) THEN <<s>>
        ELSE <<Slice(s, 0, Unwrap(at)), SliceFrom(s, Unwrap(at) + Len(pat))>>

\* The text after the first cut cut once more
SplitAgain(parts, pat) ==
    IF Len(parts) = 1 THEN parts ELSE <<parts[1]>> \o SplitOnce(parts[2], pat)

\* content.splitn(3, pat): at most three parts, cut at the first two
\* occurrences of pat
SplitN3(content, pat) == SplitAgain(SplitOnce(content, pat), pat)

\* The parsed skill when the frontmatter decodes
WithMeta(meta, body) ==
    IF ~meta.ok THEN Err("BadRequest", "frontmatter")
    ELSE Ok([meta |-> meta.val, body |-> body])

\* parts[1].trim() decoded, parts[2].trim() the body
ParseParts(parts) ==
    IF Len(parts) < 3 THEN Err("BadRequest", "delimiters")
    ELSE WithMeta(FromYaml(Trim(parts[2])), Trim(parts[3]))

\* parse_skill_md
ParseSkillMd(content) == ParseParts(SplitN3(content, P_dashes))

\* -------------------------------------------------- skills: the registry
\* The directory tree under skills_dir is a function from the names of its
\* subdirectories to [md, scripts, references, assets]: md is the content of
\* SKILL.md, None when the file is absent, and each of the three others the
\* files of that subdirectory, file name -> content. get reads an absent
\* subdirectory as an empty one, so the two are not told apart.
FileKinds == <<"scripts", "references", "assets">>

NoFiles == << >>

\* PathBuf::exists on skill_path(name)
DirExists(fs, name) == name \in DOMAIN fs

\* remove_dir_all on the root instead of skill_path(name)
RemoveDirAllOfRoot(fs, name) == [n \in {} |-> fs[n]]

\* fs::remove_dir_all(skill_dir)
RemoveDirAll(fs, name) == [n \in DOMAIN fs \ {name} |-> fs[n]]

\* The tree with the directory of `name` being d
WithDir(fs, name, d) ==
    [n \in DOMAIN fs \cup {name} |-> IF n = name THEN d ELSE fs[n]]

\* list_dir_files: the file names of one subdirectory, sorted
ListDirFiles(files) == Sorted(DOMAIN files)

\* The skill that get returns from the parsed document and the directory
ReadSkill(parsed, dir) ==
    IF ~parsed.ok THEN parsed
    ELSE Ok([meta |-> parsed.val.meta,
             body |-> parsed.val.body,
             scripts |-> ListDirFiles(dir.scripts),
             references |-> ListDirFiles(dir.references),
             assets |-> ListDirFiles(dir.assets)])

\* SkillRegistry::get
GetSkill(fs, name) ==
    IF ~ValidateSkillName(name) THEN Err("BadRequest", "name")
    ELSE IF ~DirExists(fs, name) \/ IsNone(fs[name].md)
    THEN Err("NotFound", "skill")
    ELSE ReadSkill(ParseSkillMd(Unwrap(fs[name].md)), fs[name])

\* fs::write(dir.join(filename), content) fails when the path names the
\* directory itself: a file name "." passes validate_filename and cannot
\* be opened for writing
WriteFails(filename) == filename = <<".">>

\* for (filename, content) in files { validate_filename(filename)?; write? }
\* over a HashMap, whose order is arbitrary: the loop ends at the first file
\* name that is invalid (a bad request) or cannot be written (an I/O
\* error), with any of the other files written before it
WriteLoop(files) ==
    LET stops == {f \in DOMAIN files : ~ValidateFilename(f) \/ WriteFails(f)}
    IN  IF stops = {} THEN {[ok |-> TRUE, err |-> "", files |-> files]}
        ELSE {[ok |-> FALSE,
               err |-> IF ValidateFilename(s) THEN "Io" ELSE "BadRequest",
               files |-> [f \in W |-> files[f]]] :
                  s \in stops, W \in SUBSET (DOMAIN files \ stops)}

\* One subdirectory written from the request over the files it holds
WriteKindMerges(d, kind, o) ==
    IF IsNone(o) THEN {[ok |-> TRUE, err |-> "", dir |-> d]}
    ELSE {[ok |-> w.ok, err |-> w.err,
           dir |-> [d EXCEPT ![kind] =
                       [f \in DOMAIN w.files \cup DOMAIN d[kind] |->
                           IF f \in DOMAIN w.files THEN w.files[f]
                           ELSE d[kind][f]]]] :
              w \in WriteLoop(Unwrap(o))}

\* One subdirectory emptied and written from the request, when the request
\* has files of that kind
WriteKind(d, kind, o) ==
    IF IsNone(o) THEN {[ok |-> TRUE, err |-> "", dir |-> d]}
    ELSE {[ok |-> w.ok, err |-> w.err, dir |-> [d EXCEPT ![kind] = w.files]] :
              w \in WriteLoop(Unwrap(o))}

\* The next loop runs when the loops before it went through
ThenWrite(outcomes, kind, o) ==
    UNION {IF x.ok THEN WriteKind(x.dir, kind, o) ELSE {x} : x \in outcomes}

\* The loops for scripts, references and assets, in that order
WriteFiles(d, req) ==
    ThenWrite(ThenWrite(WriteKind(d, FileKinds[1], req.scripts),
                        FileKinds[2], req.references),
              FileKinds[3], req.assets)

\* SkillRegistry::create: what is on disk afterwards, and what is returned
CreateSkill(fs, req) ==
    IF ~ValidateSkillName(req.name)
    THEN {[fs |-> fs, res |-> Err("BadRequest", "name")]}
    ELSE IF ~ValidateDescription(req.description)
    THEN {[fs |-> fs, res |-> Err("BadRequest", "description")]}
    ELSE IF DirExists(fs, req.name)
    THEN {[fs |-> fs, res |-> Err("BadRequest", "exists")]}
    ELSE LET meta == [name |-> req.name, description |-> req.description,
                      license |-> None, compatibility |-> None,
                      metadata |-> None]
             created == [md |-> Some(FormatSkillMd(meta, req.body)),
                         scripts |-> NoFiles, references |-> NoFiles,
                         assets |-> NoFiles]
             files == [scripts |-> Some(req.scripts),
                       references |-> Some(req.references),
                       assets |-> Some(req.assets)]
         IN  {[fs |-> WithDir(fs, req.name, w.dir),
               res |-> IF w.ok THEN GetSkill(WithDir(fs, req.name, w.dir), req.name)
                       ELSE Err(w.err, "filename")] :
                  w \in WriteFiles(created, files)}

\* update once the stored skill has been read
UpdateExisting(fs, name, req, existing) ==
    IF ~existing.ok THEN {[fs |-> fs, res |-> existing]}
    ELSE IF IsSome(req.description) /\ ~ValidateDescription(Unwrap(req.description))
    THEN {[fs |-> fs, res |-> Err("BadRequest", "description")]}
    ELSE LET meta == IF IsSome(req.description)
                     THEN [existing.val.meta EXCEPT
                               !.description = Unwrap(req.description)]
                     ELSE existing.val.meta
             body == IF IsSome(req.body) THEN Unwrap(req.body)
                     ELSE existing.val.body
             rewritten == [fs[name] EXCEPT !.md = Some(FormatSkillMd(meta, body))]
         IN  {[fs |-> WithDir(fs, name, w.dir),
               res |-> IF w.ok THEN GetSkill(WithDir(fs, name, w.dir), name)
                       ELSE Err(w.err, "filename")] :
                  w \in WriteFiles(rewritten, req)}

\* SkillRegistry::update
UpdateSkill(fs, name, req) == UpdateExisting(fs, name, req, GetSkill(fs, name))

\* A delete that removes the document and leaves the directory
DeleteSkillKeepsDir(fs, name) ==
    IF ~ValidateSkillName(name) THEN [fs |-> fs, res |-> Err("BadRequest", "name")]
    ELSE IF ~DirExists(fs, name) THEN [fs |-> fs, res |-> Err("NotFound", "skill")]
    ELSE [fs |-> [fs EXCEPT ![name].md = None], res |-> Ok(<<>>)]

\* SkillRegistry::delete
DeleteSkill(fs, name) ==
    IF ~ValidateSkillName(name) THEN [fs |-> fs, res |-> Err("BadRequest", "name")]
    ELSE IF ~DirExists(fs, name) THEN [fs |-> fs, res |-> Err("NotFound", "skill")]
    ELSE [fs |-> RemoveDirAll(fs, name), res |-> Ok(<<>>)]

\* SkillSummary of a skill
Summary(skill) == [name |-> skill.meta.name, description |-> skill.meta.description]

\* skills.sort_by(|a, b| a.name.cmp(&b.name)) on the summaries sm, one for
\* each directory (summaries of one name in the order of their directories)
SortByName(sm) ==
    LET precedes(m, n) ==
            \/ StrLess(sm[m].name, sm[n].name)
            \/ sm[m].name = sm[n].name /\ StrLess(m, n)
        nth(i) == CHOOSE n \in DOMAIN sm :
                      Cardinality({m \in DOMAIN sm : precedes(m, n)}) = i - 1
    IN  [i \in 1..Cardinality(DOMAIN sm) |-> sm[nth(i)]]

\* A listing that gives up at a directory it cannot read
ReadableOrNone(fs) ==
    IF \A n \in DOMAIN fs : GetSkill(fs, n).ok THEN DOMAIN fs ELSE {}

\* The directories that get can read
Readable(fs) == {n \in DOMAIN fs : GetSkill(fs, n).ok}

\* SkillRegistry::list: a summary of every directory that get can read,
\* sorted by name
ListSkills(fs) ==
    SortByName([n \in Readable(fs) |-> Summary(GetSkill(fs, n).val)])

\* A search that compares the letters as they are
SearchSkillsCaseSensitive(fs, query) ==
    SelectSeq(ListSkills(fs),
              LAMBDA skill : \/ Contains(skill.name, query)
                             \/ Contains(skill.description, query))

\* SkillRegistry::search
SearchSkills(fs, query) ==
    SelectSeq(ListSkills(fs),
              LAMBDA skill :
                  \/ Contains(ToLowercase(skill.name), ToLowercase(query))
                  \/ Contains(ToLowercase(skill.description),
                              ToLowercase(query)))

\* ------------------------------------------------------------------- state
VARIABLES
    sessions,   \* FactorySessions.sessions: session id -> FactorySession
    issued,     \* the ids Uuid::new_v4 has returned so far
    now,        \* the monotonic clock read by Instant::now, in ticks
    calls,      \* number of calls made so far
    last,       \* the last completed call: its arguments and its result
    prev,       \* the value of sessions when the last call began
    pc,         \* per thread: where it stands inside continue_session
    frame,      \* per thread: the arguments and locals of its call
    serial,     \* per session id: the session had the calls on it run one
                \* after the other, in the order of their get_mut
    skills_dir, \* the directory tree under SkillRegistry.skills_dir
    reply,      \* the last call to the registry: its request and its result
    before,     \* the value of skills_dir when that call began
    deleted     \* the names on which a delete has succeeded

vars == <<sessions, issued, now, calls, last, prev, pc, frame, serial,
          skills_dir, reply, before, deleted>>

regvars == <<skills_dir, reply, before, deleted>>

factoryvars == <<sessions, issued, now, last, prev, pc, frame, serial>>

\* DashMap::insert
Insert(m, k, v) == [x \in (DOMAIN m) \cup {k} |-> IF x = k THEN v ELSE m[x]]

\* DashMap::get, cloned
Get(m, k) == IF k \in DOMAIN m THEN Some(m[k]) ELSE None

\* An id generator that may repeat itself
NewV4Any == Ids

\* Uuid::new_v4: an id that was never returned before
NewV4 == Ids \ issued

\* Duration::as_secs: whole seconds, rounded down
AsSecs(ticks) == ticks \div TicksPerSec

\* Instant::duration_since: saturates at zero
DurationSince(later, earlier) == IF later >= earlier THEN later - earlier ELSE 0

\* The closure of retain with <= for <
RetainedInclusive(session, t, max_age_secs) ==
    AsSecs(DurationSince(t, session.created_at)) <= max_age_secs

\* The closure of retain comparing the raw duration, not its whole seconds
RetainedTicks(session, t, max_age_secs) ==
    DurationSince(t, session.created_at) < max_age_secs

\* The closure of retain in cleanup_expired
Retained(session, t, max_age_secs) ==
    AsSecs(DurationSince(t, session.created_at)) < max_age_secs

\* DashMap::retain with that closure
Retain(m, t, max_age_secs) ==
    [k \in {x \in DOMAIN m : Retained(m[x], t, max_age_secs)} |-> m[k]]

\* A response that reports an I/O error as a bad request
StatusOfIoAsBadRequest(err) ==
    CASE err = "NotFound"   -> 404
      [] err = "BadRequest" -> 400
      [] err = "Timeout"    -> 408
      [] err = "Internal"   -> 500
      [] err = "Io"         -> 400

\* AppError::into_response: the status of each error variant
StatusOf(err) ==
    CASE err = "NotFound"   -> 404
      [] err = "BadRequest" -> 400
      [] err = "Timeout"    -> 408
      [] err = "Internal"   -> 500
      [] err = "Io"         -> 500

\* continue_factory passing the error on as an internal one
ContinueErrorInternal == "Internal"

\* continue_factory: .map_err(|e| AppError::BadRequest(e.to_string()))
ContinueError == "BadRequest"

\* The status recorded for a call that was not answered
NoResponse == 0

NoCall == [op |-> "none", id |-> 0, input |-> None, max_age |-> 0,
           status |-> 0, ret |-> None, done |-> FALSE, skill |-> None]

NoReply == [op |-> "none", name |-> <<>>, req |-> <<>>, res |-> Ok(<<>>),
            status |-> 0]

\* What a handler of the skills answers: Ok(Json(..)) is 200 OK, an error
\* goes through AppError::into_response
Response(op, name, req, res) ==
    [op |-> op, name |-> name, req |-> req, res |-> res,
     status |-> IF res.ok THEN 200 ELSE StatusOf(res.err)]

IdleFrame == [id |-> 0, input |-> <<>>, matched |-> "", max_age |-> 0,
              todo |-> {}, seen |-> {}]

Init ==
    /\ sessions = << >>
    /\ issued = {}
    /\ now = 0
    /\ calls = 0
    /\ last = NoCall
    /\ prev = << >>
    /\ pc = [t \in Threads |-> "idle"]
    /\ frame = [t \in Threads |-> IdleFrame]
    /\ serial = << >>
    /\ skills_dir = << >>
    /\ reply = NoReply
    /\ before = << >>
    /\ deleted = {}

threadvars == <<pc, frame, serial>>

\* ------------------------------------------- handlers/factory.rs: answers
\* U+00E9, a lower-case letter outside ASCII: the two bytes C3 A9
EAcute == <<"C3", "A9">>

\* U+0307, the combining dot that to_lowercase leaves behind U+0130: not
\* alphanumeric
CombiningDot == <<"CC", "87">>

P_hyphens == <<"-", "-">>
P_hyphen == <<"-">>
P_custom_skill == <<"c","u","s","t","o","m","-","s","k","i","l","l">>
P_untitled == <<"U","n","t","i","t","l","e","d"," ","S","k","i","l","l">>
P_triggers == <<"T","r","i","g","g","e","r","s",":"," ">>
P_no_triggers == <<"N","o"," ","t","r","i","g","g","e","r","s"," ",
                   "d","e","f","i","n","e","d">>
P_comma == <<",", " ">>

\* char::is_alphanumeric on a character of one byte
IsAlphanumeric(c) ==
    \/ c \in LowerLetters \cup Digits
    \/ \E i \in 1..Len(UpperChars) : UpperChars[i] = c

\* The closure of .chars().map(..) in sanitize_skill_name, what the byte at i
\* gives: the character that begins there stays if it is alphanumeric and
\* becomes a hyphen if not; a continuation byte gives nothing of its own
MapChars(s, i) ==
    IF s[i] \in ContinuationBytes THEN <<>>
    ELSE IF MatchAt(s, EAcute, i - 1) THEN EAcute
    ELSE IF MatchAt(s, DottedI, i - 1) THEN DottedI
    ELSE IF IsAlphanumeric(s[i]) THEN <<s[i]>>
    ELSE P_hyphen

\* The hyphens right before byte i of s
HyphensBefore(s, i) ==
    Cardinality({j \in 1..(i - 1) : \A k \in j..(i - 1) : s[k] = "-"})

\* name.replace("--", "-"): the matches are taken from left to right and do
\* not overlap, so in a run of hyphens the first of each pair stays, the
\* second goes, and a last one without a partner stays
ReplaceHyphens(s) ==
    Flatten([i \in 1..Len(s) |->
                 IF s[i] = "-" /\ HyphensBefore(s, i) % 2 = 1 THEN <<>>
                 ELSE <<s[i]>>])

\* while name.contains("--") { name = name.replace("--", "-") }
RECURSIVE CollapseHyphens(_)
CollapseHyphens(name) ==
    IF Contains(name, P_hyphens) THEN CollapseHyphens(ReplaceHyphens(name))
    ELSE name

RECURSIVE SkipForwardOver(_, _, _)
SkipForwardOver(s, c, i) ==
    IF i > Len(s) \/ s[i] # c THEN i ELSE SkipForwardOver(s, c, i + 1)

RECURSIVE SkipBackwardOver(_, _, _)
SkipBackwardOver(s, c, j) ==
    IF j < 1 \/ s[j] # c THEN j ELSE SkipBackwardOver(s, c, j - 1)

\* str::trim_matches(c)
TrimMatches(s, c) ==
    SubSeq(s, SkipForwardOver(s, c, 1), SkipBackwardOver(s, c, Len(s)))

\* The name of sanitize_skill_name once it is trimmed
OrCustomSkill(name) == IF name = <<>> THEN P_custom_skill ELSE name

\* sanitize_skill_name
Sanitized(lowered) ==
    OrCustomSkill(TrimMatches(
        CollapseHyphens(Flatten([i \in 1..Len(lowered) |-> MapChars(lowered, i)])),
        "-"))

SanitizeSkillName(goal) == Sanitized(ToLowercase(goal))

\* Vec<String>::join(sep)
RECURSIVE JoinWith(_, _)
JoinWith(parts, sep) ==
    IF parts = <<>> THEN <<>>
    ELSE IF Len(parts) = 1 THEN parts[1]
    ELSE parts[1] \o sep \o JoinWith(Tail(parts), sep)

\* The SkillSummary continue_factory builds from the answers of a session
SkillOf(session) ==
    [name |-> SanitizeSkillName(IF IsSome(session.answers.goal)
                                THEN Unwrap(session.answers.goal)
                                ELSE P_untitled),
     description |-> IF IsSome(session.answers.triggers)
                     THEN P_triggers \o JoinWith(Unwrap(session.answers.triggers),
                                                 P_comma)
                     ELSE P_no_triggers]

\* A response of continue_factory that gives the skill one step early
ContinueResponseAtConfirm(call, session) ==
    [call EXCEPT !.status = 200, !.ret = Some(session),
                 !.done = session.step = "Done",
                 !.skill = IF session.step \in {"Confirm", "Done"}
                           THEN Some(SkillOf(session)) ELSE None]

\* The FactoryResponse of continue_factory for the session that
\* continue_session returned
ContinueResponse(call, session) ==
    [call EXCEPT !.status = 200, !.ret = Some(session),
                 !.done = session.step = "Done",
                 !.skill = IF session.step = "Done"
                           THEN Some(SkillOf(session)) ELSE None]

\* ------------------------------------------------ handlers, one call each
\* FactorySessions::start with the id new_v4 returned
Start(id, initial_input) ==
    /\ sessions' = Insert(sessions, id, NewSession(id, initial_input, now))
    /\ issued' = issued \cup {id}

\* POST /factory/start: start_factory
StartFactory(initial_input) ==
    \E id \in NewV4 :
        /\ Start(id, initial_input)
        /\ last' = [NoCall EXCEPT !.op = "start", !.id = id,
                                  !.input = initial_input, !.status = 200,
                                  !.ret = Some(sessions'[id]),
                                  !.done = FALSE, !.skill = None]
        /\ prev' = sessions
        /\ calls' = calls + 1
        /\ UNCHANGED <<now, threadvars, regvars>>

\* continue_session that stamps the session with the time of the call
ContinueSessionRefreshes(m, id, input) ==
    [m EXCEPT ![id] = [Transition(@, input) EXCEPT !.created_at = now]]

\* continue_session dropping the entry of a session that has just finished
ContinueSessionDropsDone(m, id, input) ==
    IF Transition(m[id], input).step = "Done"
    THEN [k \in DOMAIN m \ {id} |-> m[k]]
    ELSE [m EXCEPT ![id] = Transition(@, input)]

\* The map after continue_session on an entry it holds: the arm writes
\* through the RefMut, and nothing is inserted or removed
ContinueSession(m, id, input) ==
    [m EXCEPT ![id] = Transition(@, input)]

\* POST /factory/continue: continue_factory -> FactorySessions::continue_session
ContinueFactory(id, input) ==
    /\ IF id \in DOMAIN sessions /\ Panics(sessions[id], input)
       THEN \* the unwinding drops the RefMut, the arm has written nothing,
            \* and the task of the request ends without a response
            /\ sessions' = sessions
            /\ last' = [NoCall EXCEPT !.op = "continue", !.id = id,
                                      !.input = Some(input), !.status = NoResponse]
       ELSE IF id \in DOMAIN sessions
       THEN /\ sessions' = ContinueSession(sessions, id, input)
            /\ last' = ContinueResponse(
                           [NoCall EXCEPT !.op = "continue", !.id = id,
                                          !.input = Some(input)],
                           Transition(sessions[id], input))
       ELSE /\ sessions' = sessions
            /\ last' = [NoCall EXCEPT !.op = "continue", !.id = id,
                                      !.input = Some(input),
                                      !.status = StatusOf(ContinueError)]
    /\ prev' = sessions
    /\ calls' = calls + 1
    /\ UNCHANGED <<issued, now, threadvars, regvars>>

\* FactorySessions::cleanup_expired
CleanupExpired(max_age_secs) ==
    /\ sessions' = Retain(sessions, now, max_age_secs)
    /\ last' = [NoCall EXCEPT !.op = "cleanup", !.max_age = max_age_secs]
    /\ prev' = sessions
    /\ calls' = calls + 1
    /\ UNCHANGED <<issued, now, threadvars, regvars>>

\* Time passes between two calls
Tick ==
    /\ now < MaxTime
    /\ now' = now + 1
    /\ last' = [NoCall EXCEPT !.op = "tick"]
    /\ prev' = sessions
    /\ UNCHANGED <<sessions, issued, calls, threadvars, regvars>>

\* The service: any number of clients, sessions of any age
Next ==
    \/ calls < MaxCalls /\ \E i \in InitialInputs : StartFactory(i)
    \/ calls < MaxCalls /\ \E id \in Ids, input \in Inputs : ContinueFactory(id, input)
    \/ calls < MaxCalls /\ \E a \in MaxAges : CleanupExpired(a)
    \/ Tick

Spec == Init /\ [][Next]_vars

\* One dialogue: a single client starts one session and keeps answering
DialogueStart(i) == issued = {} /\ StartFactory(i)

DialogueContinue(id, input) == calls < MaxDialogueCalls /\ ContinueFactory(id, input)

DialogueNext ==
    \/ \E i \in InitialInputs : DialogueStart(i)
    \/ \E id \in Ids, input \in Inputs : DialogueContinue(id, input)

DialogueSpec == Init /\ [][DialogueNext]_vars

\* One dialogue over its whole life: the clock runs and the cleanup is called
LifecycleCleanup(a) == calls < MaxDialogueCalls /\ CleanupExpired(a)

LifecycleNext ==
    \/ \E i \in InitialInputs : DialogueStart(i)
    \/ \E id \in Ids, input \in Inputs : DialogueContinue(id, input)
    \/ \E a \in MaxAges : LifecycleCleanup(a)
    \/ Tick

LifecycleSpec == Init /\ [][LifecycleNext]_vars

\* ------------------------------------------- one answer given at one step
\* The texts made of at most MaxTokens of the tokens T
TokenSeqs(T) == UNION {[1..n -> T] : n \in 0..MaxTokens}

RECURSIVE Concat(_)
Concat(ts) == IF ts = <<>> THEN <<>> ELSE Head(ts) \o Concat(Tail(ts))

Texts(T) == {Concat(ts) : ts \in TokenSeqs(T)}

\* What the answers are made of, step by step
PlainTokens == {<<" ">>, <<"a">>, <<"B">>}
TriggerTokens == {<<",">>, <<";">>, <<"\n">>, <<" ">>, <<"a">>}
ExampleTokens == {<<"I","n","p","u","t",":">>, P_output, P_arrow,
                  <<" ">>, <<"a">>, DottedI}
ComplexityTokens == {P_simple, <<"T","e","x","t">>, P_complex, P_script,
                     P_template, <<" ">>}

AnswersTo(step) ==
    CASE step = "Goal"       -> Texts(PlainTokens)
      [] step = "Trigger"    -> Texts(TriggerTokens)
      [] step = "Example"    -> Texts(ExampleTokens)
      [] step = "Complexity" -> Texts(ComplexityTokens)
      [] step = "EdgeCases"  -> Texts(PlainTokens)

AnswerSteps == {"Goal", "Trigger", "Example", "Complexity", "EdgeCases"}

\* The answers that bring a session to the step under test; the one at
\* Confirm is a rejection
EarlierAnswers ==
    [Goal |-> <<"g">>, Trigger |-> <<"t">>, Example |-> <<"x", "-", ">", "y">>,
     Complexity |-> P_script, EdgeCases |-> <<"e">>, Confirm |-> <<"n">>]

\* continue_session with those answers until session s stands at `step`
RECURSIVE RunTo(_, _)
RunTo(s, step) ==
    IF s.step = step THEN s
    ELSE RunTo(Transition(s, EarlierAnswers[s.step]), step)

\* A session that reaches `step` for the first time, and one that is back at
\* it after a rejection at Confirm
FirstPass(step) == RunTo(NewSession(1, None, 0), step)
SecondPass(step) ==
    RunTo(RunTo(RunTo(NewSession(1, None, 0), "Confirm"), "Goal"), step)

\* The store holds one session, which stands at one of the asking steps
AnswerInit ==
    /\ \E step \in AnswerSteps :
           \E s \in {FirstPass(step), SecondPass(step)} :
               sessions = Insert(<< >>, 1, s)
    /\ issued = {1}
    /\ now = 0
    /\ calls = 0
    /\ last = NoCall
    /\ prev = << >>
    /\ pc = [t \in Threads |-> "idle"]
    /\ frame = [t \in Threads |-> IdleFrame]
    /\ serial = << >>
    /\ skills_dir = << >>
    /\ reply = NoReply
    /\ before = << >>
    /\ deleted = {}

\* The client answers the question of that step
Answer(input) == ContinueFactory(1, input)

AnswerNext ==
    /\ calls = 0
    /\ \E input \in AnswersTo(sessions[1].step) : Answer(input)

AnswerSpec == AnswerInit /\ [][AnswerNext]_vars

\* ------------------------------------- continue_session, step by step
\* Thread t holds the RefMut that get_mut returned for entry id
Holds(t, id) == pc[t] \in {"match", "arm", "clone"} /\ frame[t].id = id

\* get_mut that hands out the entry whoever holds it
EntryFreeNoLock(id, t) == TRUE

\* get_mut waits until no other thread holds the entry
EntryFree(id, t) == \A u \in Threads \ {t} : ~Holds(u, id)

\* FactorySessions::start, called by thread t
ThreadStart(t, initial_input) ==
    /\ pc[t] = "idle"
    /\ calls < MaxThreadCalls
    /\ \E id \in NewV4 :
           /\ Start(id, initial_input)
           /\ serial' = Insert(serial, id, NewSession(id, initial_input, now))
    /\ calls' = calls + 1
    /\ UNCHANGED <<now, last, prev, pc, frame, regvars>>

\* Thread t enters continue_session(id, input)
ThreadCall(t, id, input) ==
    /\ pc[t] = "idle"
    /\ calls < MaxThreadCalls
    /\ pc' = [pc EXCEPT ![t] = "get_mut"]
    /\ frame' = [frame EXCEPT ![t] = [IdleFrame EXCEPT !.id = id, !.input = input]]
    /\ calls' = calls + 1
    /\ UNCHANGED <<sessions, issued, now, last, prev, serial, regvars>>

\* self.sessions.get_mut(id).ok_or_else(..)?
ThreadGetMut(t) ==
    /\ pc[t] = "get_mut"
    /\ IF frame[t].id \in DOMAIN sessions
       THEN /\ EntryFree(frame[t].id, t)
            /\ pc' = [pc EXCEPT ![t] = "match"]
            /\ serial' = [serial EXCEPT ![frame[t].id] = Transition(@, frame[t].input)]
            /\ frame' = frame
            /\ last' = last
       ELSE /\ pc' = [pc EXCEPT ![t] = "idle"]
            /\ frame' = [frame EXCEPT ![t] = IdleFrame]
            /\ serial' = serial
            /\ last' = [NoCall EXCEPT !.op = "continue", !.id = frame[t].id,
                                      !.input = Some(frame[t].input),
                                      !.status = StatusOf(ContinueError)]
    /\ UNCHANGED <<sessions, issued, now, calls, prev, regvars>>

\* match session.step
ThreadMatch(t) ==
    /\ pc[t] = "match"
    /\ frame' = [frame EXCEPT ![t].matched = sessions[frame[t].id].step]
    /\ pc' = [pc EXCEPT ![t] = "arm"]
    /\ UNCHANGED <<sessions, issued, now, calls, last, prev, serial, regvars>>

\* the arm that was selected writes to the entry
ThreadArm(t) ==
    /\ pc[t] = "arm"
    /\ sessions' = [sessions EXCEPT ![frame[t].id] =
                        Arm(frame[t].matched, @, frame[t].input)]
    /\ pc' = [pc EXCEPT ![t] = "clone"]
    /\ UNCHANGED <<issued, now, calls, last, prev, frame, serial, regvars>>

\* Ok(session.clone()), and the RefMut is dropped
ThreadReturn(t) ==
    /\ pc[t] = "clone"
    /\ pc' = [pc EXCEPT ![t] = "idle"]
    /\ frame' = [frame EXCEPT ![t] = IdleFrame]
    /\ last' = ContinueResponse(
                   [NoCall EXCEPT !.op = "continue", !.id = frame[t].id,
                                  !.input = Some(frame[t].input)],
                   sessions[frame[t].id])
    /\ UNCHANGED <<sessions, issued, now, calls, prev, serial, regvars>>

ThreadNext ==
    \/ \E t \in Threads, i \in InitialInputs : ThreadStart(t, i)
    \/ \E t \in Threads, id \in Ids, input \in Inputs : ThreadCall(t, id, input)
    \/ \E t \in Threads : ThreadGetMut(t)
    \/ \E t \in Threads : ThreadMatch(t)
    \/ \E t \in Threads : ThreadArm(t)
    \/ \E t \in Threads : ThreadReturn(t)

ThreadSpec == Init /\ [][ThreadNext]_vars

\* ----------------------- continue_session against cleanup_expired
\* A retain that takes the entry whoever holds it
ShardFreeNoLock(id, t) == TRUE

\* retain takes the write lock of the shard of entry id: it waits while
\* another thread holds a RefMut into that shard
ShardFree(id, t) == \A u \in Threads \ {t} : ~Holds(u, id)

\* Thread t enters cleanup_expired(max_age_secs): retain is to visit the
\* entries the map holds
ThreadCleanup(t, max_age_secs) ==
    /\ pc[t] = "idle"
    /\ calls < MaxThreadCalls
    /\ pc' = [pc EXCEPT ![t] = "retain"]
    /\ frame' = [frame EXCEPT ![t] = [IdleFrame EXCEPT !.max_age = max_age_secs,
                                                       !.todo = DOMAIN sessions]]
    /\ calls' = calls + 1
    /\ UNCHANGED <<sessions, issued, now, last, prev, serial, regvars>>

\* retain visits entry id under the lock of its shard and keeps or removes it
ThreadRetain(t, id) ==
    /\ pc[t] = "retain"
    /\ id \in DOMAIN sessions \ frame[t].seen
    /\ ShardFree(id, t)
    /\ sessions' = IF Retained(sessions[id], now, frame[t].max_age) THEN sessions
                   ELSE [k \in DOMAIN sessions \ {id} |-> sessions[k]]
    /\ frame' = [frame EXCEPT ![t].seen = @ \cup {id}]
    /\ UNCHANGED <<issued, now, calls, last, prev, pc, serial, regvars>>

\* retain has visited every entry that was there when it began
ThreadCleanupReturn(t) ==
    /\ pc[t] = "retain"
    /\ frame[t].todo \cap DOMAIN sessions \subseteq frame[t].seen
    /\ pc' = [pc EXCEPT ![t] = "idle"]
    /\ frame' = [frame EXCEPT ![t] = IdleFrame]
    /\ last' = [NoCall EXCEPT !.op = "cleanup", !.max_age = frame[t].max_age]
    /\ UNCHANGED <<sessions, issued, now, calls, prev, serial, regvars>>

\* One session is stored; the threads continue it and clean up
RaceInit ==
    /\ sessions = Insert(<< >>, 1, NewSession(1, None, 0))
    /\ issued = {1}
    /\ now = 0
    /\ calls = 0
    /\ last = NoCall
    /\ prev = << >>
    /\ pc = [t \in Threads |-> "idle"]
    /\ frame = [t \in Threads |-> IdleFrame]
    /\ serial = Insert(<< >>, 1, NewSession(1, None, 0))
    /\ skills_dir = << >>
    /\ reply = NoReply
    /\ before = << >>
    /\ deleted = {}

RaceNext ==
    \/ \E t \in Threads, input \in Inputs : ThreadCall(t, 1, input)
    \/ \E t \in Threads : ThreadGetMut(t)
    \/ \E t \in Threads : ThreadMatch(t)
    \/ \E t \in Threads : ThreadArm(t)
    \/ \E t \in Threads : ThreadReturn(t)
    \/ \E t \in Threads, a \in MaxAges : ThreadCleanup(t, a)
    \/ \E t \in Threads, id \in Ids : ThreadRetain(t, id)
    \/ \E t \in Threads : ThreadCleanupReturn(t)

RaceSpec == RaceInit /\ [][RaceNext]_vars

\* ------------------------------------------------ skills: the requests
SkillNames == {<<"a">>, <<"b">>}
BadSkillName == <<"A">>

D_plain == <<"D">>
D_other == <<"e">>
D_dashes == <<"x", "-", "-", "-">>
B_plain == <<"b">>
B_padded == <<" ", "c", "\n">>

F_f == <<"f">>
F_g == <<"g">>
F_bad == <<".", ".", "/", "e">>
F_dot == <<".">>
F_back == <<"a", "\\", "b">>

\* A HashMap<String, String> with the file names S
FilesOf(S) == [f \in S |-> <<"c">>]

CreateReq(n, d, b, s, r, a) ==
    [name |-> n, description |-> d, body |-> b, scripts |-> FilesOf(s),
     references |-> FilesOf(r), assets |-> FilesOf(a)]

\* The bodies of POST /skills: two valid names, each without files, with a
\* description that holds "---", and with files of two kinds; for the first
\* name also an invalid file name, an empty description and an invalid
\* name; for the second a script that cannot be written and an invalid
\* reference
CreateRequests ==
    {CreateReq(n, D_plain, B_plain, {}, {}, {}) : n \in SkillNames}
    \cup {CreateReq(n, D_dashes, B_padded, {}, {}, {}) : n \in SkillNames}
    \cup {CreateReq(n, D_plain, B_plain, {F_f, F_g}, {F_g}, {}) : n \in SkillNames}
    \cup {CreateReq(<<"a">>, D_plain, B_plain, {F_f, F_bad}, {F_g}, {}),
          CreateReq(<<"a">>, <<>>, B_plain, {}, {}, {}),
          CreateReq(<<"b">>, D_plain, B_plain, {F_dot}, {F_bad}, {}),
          CreateReq(BadSkillName, D_plain, B_plain, {}, {}, {})}

UpdateReq(d, b, s, r, a) ==
    [description |-> d, body |-> b, scripts |-> s, references |-> r,
     assets |-> a]

\* The bodies of PUT /skills/{name}: one field set at a time
UpdateRequests ==
    {UpdateReq(Some(d), None, None, None, None) :
         d \in {D_other, D_dashes, <<>>}}
    \cup {UpdateReq(None, Some(B_padded), None, None, None)}
    \cup {UpdateReq(None, None, Some(FilesOf(s)), None, None) :
              s \in {{F_g}, {F_g, F_bad}, {<<>>}, {F_back}, {F_dot}}}
    \cup {UpdateReq(None, None, None, Some(FilesOf({F_f})), None),
          UpdateReq(None, None, None, None, Some(FilesOf({F_f})))}

\* The calls PUT /skills/{name}: every body for the first name, two of them
\* for the second, one for a name that is not valid
UpdateCalls ==
    {<<<<"a">>, req>> : req \in UpdateRequests}
    \cup {<<<<"b">>, UpdateReq(Some(D_other), None, None, None, None)>>,
          <<<<"b">>, UpdateReq(None, None, Some(FilesOf({F_g})), None, None)>>,
          <<BadSkillName, UpdateReq(Some(D_other), None, None, None, None)>>}

\* ------------------------------------------------ skills: the handlers
\* POST /skills: create_skill
CreateCall(req) ==
    /\ calls < MaxRegistryCalls
    /\ \E o \in CreateSkill(skills_dir, req) :
           /\ skills_dir' = o.fs
           /\ reply' = Response("create", req.name, req, o.res)
    /\ before' = skills_dir
    /\ calls' = calls + 1
    /\ UNCHANGED <<deleted, factoryvars>>

\* PUT /skills/{name}: update_skill
UpdateCall(name, req) ==
    /\ calls < MaxRegistryCalls
    /\ \E o \in UpdateSkill(skills_dir, name, req) :
           /\ skills_dir' = o.fs
           /\ reply' = Response("update", name, req, o.res)
    /\ before' = skills_dir
    /\ calls' = calls + 1
    /\ UNCHANGED <<deleted, factoryvars>>

\* DELETE /skills/{name}: delete_skill
DeleteCall(name) ==
    /\ calls < MaxRegistryCalls
    /\ skills_dir' = DeleteSkill(skills_dir, name).fs
    /\ reply' = Response("delete", name, <<>>, DeleteSkill(skills_dir, name).res)
    /\ deleted' = IF DeleteSkill(skills_dir, name).res.ok
                  THEN deleted \cup {name} ELSE deleted
    /\ before' = skills_dir
    /\ calls' = calls + 1
    /\ UNCHANGED factoryvars

\* GET /skills/{name}: get_skill
GetCall(name) ==
    /\ calls < MaxRegistryCalls
    /\ reply' = Response("get", name, <<>>, GetSkill(skills_dir, name))
    /\ before' = skills_dir
    /\ calls' = calls + 1
    /\ UNCHANGED <<skills_dir, deleted, factoryvars>>

\* GET /skills: list_skills
ListCall ==
    /\ calls < MaxRegistryCalls
    /\ reply' = Response("list", <<>>, <<>>, Ok(ListSkills(skills_dir)))
    /\ before' = skills_dir
    /\ calls' = calls + 1
    /\ UNCHANGED <<skills_dir, deleted, factoryvars>>

\* The values of q in GET /skills/search?q=
Queries == {<<>>, <<"A">>, <<"d">>, <<"x">>, <<"a", "d">>}

\* GET /skills/search: search_skills
SearchCall(query) ==
    /\ calls < MaxRegistryCalls
    /\ reply' = Response("search", <<>>, query,
                          Ok(SearchSkills(skills_dir, query)))
    /\ before' = skills_dir
    /\ calls' = calls + 1
    /\ UNCHANGED <<skills_dir, deleted, factoryvars>>

RegistryNext ==
    \/ \E req \in CreateRequests : CreateCall(req)
    \/ \E call \in UpdateCalls : UpdateCall(call[1], call[2])
    \/ \E name \in SkillNames \cup {BadSkillName, <<"c">>} : DeleteCall(name)
    \/ \E name \in {<<"a">>, BadSkillName, <<"c">>, <<"e">>} : GetCall(name)
    \/ ListCall
    \/ \E query \in Queries : SearchCall(query)

\* A skill that an earlier run of the service created
StoredSkill == CreateReq(<<"a">>, D_plain, B_plain, {F_f, F_g}, {F_g}, {})

\* Directories under skills_dir that are no skills: "c" without SKILL.md,
\* "d" whose SKILL.md has no delimiters, "e" whose frontmatter is no
\* mapping, and "A", a document in a directory whose name is not valid
OtherDirs ==
    LET dir(md) == [md |-> md, scripts |-> NoFiles, references |-> NoFiles,
                    assets |-> NoFiles]
    IN  (<<"c">> :> dir(None))
        @@ (<<"d">> :> dir(Some(<<"x">>)))
        @@ (<<"e">> :> dir(Some(P_dashes \o <<"\n", "x", "\n">> \o P_dashes
                                \o <<"\n">>)))
        @@ (BadSkillName :>
                dir(Some(FormatSkillMd([name |-> <<"z">>,
                                        description |-> D_plain,
                                        license |-> None,
                                        compatibility |-> None,
                                        metadata |-> None], B_plain))))

\* What skills_dir holds when the registry is constructed: nothing, a
\* skill that an earlier run created, or that skill among directories
\* that are no skills
RegistryInit ==
    /\ skills_dir \in {<< >>}
                      \cup {o.fs : o \in CreateSkill(<< >>, StoredSkill)}
                      \cup {o.fs @@ OtherDirs :
                                o \in CreateSkill(<< >>, StoredSkill)}
    /\ reply = NoReply
    /\ before = << >>
    /\ deleted = {}
    /\ sessions = << >>
    /\ issued = {}
    /\ now = 0
    /\ calls = 0
    /\ last = NoCall
    /\ prev = << >>
    /\ pc = [t \in Threads |-> "idle"]
    /\ frame = [t \in Threads |-> IdleFrame]
    /\ serial = << >>

RegistrySpec == RegistryInit /\ [][RegistryNext]_vars

\* ------------------------------------------------ skills: the codec alone
\* What the descriptions are made of: a letter, the delimiter, a quote, a
\* blank, and the colon and blank that end a key
DescriptionTokens == {<<"d">>, P_dashes, <<"'">>, <<" ">>, P_colon}

Descriptions ==
    {Concat(ts) : ts \in UNION {[1..n -> DescriptionTokens] :
                                    n \in 1..MaxDescriptionTokens}}

\* Names that are valid, two of them words that YAML reads as other types
CodecNames == {<<"a">>, <<"1">>, Y_null}

CodecBodies == {<<>>, <<"b">>, <<" ", "b", "\n">>,
                <<"b", "\n">> \o P_dashes \o <<"\n", "b">>}

Licenses == {None, Some(<<"M", "I", "T">>)}

\* A SkillMeta and a body handed to format_skill_md
CodecInit ==
    /\ \E n \in CodecNames, d \in Descriptions, l \in Licenses, b \in CodecBodies :
           reply = [op |-> "none", name |-> n,
                    req |-> [meta |-> [name |-> n, description |-> d,
                                       license |-> l, compatibility |-> None,
                                       metadata |-> None],
                             body |-> b],
                    res |-> Ok(<<>>), status |-> 0]
    /\ skills_dir = << >>
    /\ before = << >>
    /\ deleted = {}
    /\ sessions = << >>
    /\ issued = {}
    /\ now = 0
    /\ calls = 0
    /\ last = NoCall
    /\ prev = << >>
    /\ pc = [t \in Threads |-> "idle"]
    /\ frame = [t \in Threads |-> IdleFrame]
    /\ serial = << >>

\* format_skill_md(&meta, &body)
FormatCall ==
    /\ reply.op = "none"
    /\ reply' = [reply EXCEPT !.op = "format",
                              !.res = Ok(FormatSkillMd(reply.req.meta,
                                                       reply.req.body))]
    /\ UNCHANGED <<skills_dir, before, deleted, calls, factoryvars>>

\* parse_skill_md(&content) on the document that format_skill_md made
ParseCall ==
    /\ reply.op = "format"
    /\ reply' = [reply EXCEPT !.op = "parse",
                              !.res = ParseSkillMd(reply.res.val)]
    /\ UNCHANGED <<skills_dir, before, deleted, calls, factoryvars>>

CodecNext == FormatCall \/ ParseCall

CodecSpec == CodecInit /\ [][CodecNext]_vars

\* --------------------------------------------- skills: the validators
\* What the names are made of: a letter, a digit, the hyphen, and four
\* characters that no name may hold
NameTokens == {<<"a">>, <<"1">>, <<"-">>, <<"A">>, <<"_">>, <<".">>, <<" ">>}

Repeat(c, n) == [i \in 1..n |-> c]

\* Names of up to MaxNameTokens characters, and names at the length limit
Names ==
    UNION {[1..n -> {tok[1] : tok \in NameTokens}] : n \in 0..MaxNameTokens}
    \cup {Repeat("a", MaxNameLen), Repeat("a", MaxNameLen + 1),
          Repeat("a", MaxNameLen - 2) \o <<"-", "a">>}

\* Descriptions at the limits of the length
LimitDescriptions ==
    {Repeat("d", n) : n \in {0, 1, MaxDescriptionLen, MaxDescriptionLen + 1}}

\* One call on a registry that holds StoredSkill: any of the four
\* operations on any of the names, and create and update with the
\* descriptions at the limits
ValidationInit ==
    /\ skills_dir \in {o.fs : o \in CreateSkill(<< >>, StoredSkill)}
    /\ reply = NoReply
    /\ before = << >>
    /\ deleted = {}
    /\ sessions = << >>
    /\ issued = {}
    /\ now = 0
    /\ calls = 0
    /\ last = NoCall
    /\ prev = << >>
    /\ pc = [t \in Threads |-> "idle"]
    /\ frame = [t \in Threads |-> IdleFrame]
    /\ serial = << >>

ValidationNext ==
    /\ calls = 0
    /\ \/ \E n \in Names : CreateCall(CreateReq(n, D_plain, B_plain, {}, {}, {}))
       \/ \E d \in LimitDescriptions :
              CreateCall(CreateReq(<<"b">>, d, B_plain, {}, {}, {}))
       \/ \E n \in Names :
              UpdateCall(n, UpdateReq(Some(D_other), None, None, None, None))
       \/ \E n \in {<<"a">>, <<"b">>}, d \in LimitDescriptions :
              UpdateCall(n, UpdateReq(Some(d), None, None, None, None))
       \/ \E n \in Names : GetCall(n)
       \/ \E n \in Names : DeleteCall(n)

ValidationSpec == ValidationInit /\ [][ValidationNext]_vars

\* ----------------------------------- the skill a finished dialogue yields
GoalTokens == {<<"a">>, <<"B">>, <<"1">>, <<" ">>, <<"-">>, <<"_">>, <<"!">>,
               EAcute, DottedI}

\* The goals: every text of at most MaxGoalTokens tokens, and goals around
\* the longest name a skill may have
Goals ==
    {Concat(ts) : ts \in UNION {[1..n -> GoalTokens] : n \in 0..MaxGoalTokens}}
        \cup {Repeat("a", MaxNameLen), Repeat("a", MaxNameLen + 1),
              Repeat("a", MaxNameLen) \o <<"!">>,
              Repeat("a", MaxNameLen - 1) \o <<" ", "b">>}

\* The store holds one session with goal g that stands at Confirm: the goal
\* came with start, or as the answer at Goal
NamingInit ==
    /\ \E g \in Goals :
           \E s \in {RunTo(NewSession(1, Some(g), 0), "Confirm"),
                     RunTo(Transition(NewSession(1, None, 0), g), "Confirm")} :
               sessions = Insert(<< >>, 1, s)
    /\ issued = {1}
    /\ now = 0
    /\ calls = 0
    /\ last = NoCall
    /\ prev = << >>
    /\ pc = [t \in Threads |-> "idle"]
    /\ frame = [t \in Threads |-> IdleFrame]
    /\ serial = << >>
    /\ skills_dir = << >>
    /\ reply = NoReply
    /\ before = << >>
    /\ deleted = {}

\* The client confirms or rejects, and may call again
NamingNext ==
    /\ calls < 2
    /\ \E input \in {P_yes, <<"n">>} : ContinueFactory(1, input)

NamingSpec == NamingInit /\ [][NamingNext]_vars

\* ------------------------------------------------------------------ claims
StepOrder == <<"Goal", "Trigger", "Example", "Complexity", "EdgeCases", "Confirm">>

Successor(a, b) == \E i \in 1..(Len(StepOrder) - 1) : StepOrder[i] = a /\ StepOrder[i + 1] = b

AllowedStepChange(a, b) ==
    \/ Successor(a, b)
    \/ a = "Confirm" /\ b \in {"Done", "Goal"}
    \/ a = "Done" /\ b = "Done"

Continued(id) == last.op = "continue" /\ last.id = id /\ id \in DOMAIN prev

SaysYes(input) == ToLowercase(Trim(input)) \in {P_yes, P_y, P_confirm}

\* C1: a continue_session call moves the step of its session from a step
\* before Confirm to its successor, from Confirm to Done or to Goal, and
\* leaves Done at Done; no call changes a step in any other way.
C1_StepChanges ==
    \A id \in DOMAIN prev :
        id \in DOMAIN sessions =>
            IF Continued(id)
            THEN AllowedStepChange(prev[id].step, sessions[id].step)
            ELSE sessions[id].step = prev[id].step

\* C1 witness: a rejection at Confirm has sent a session back to Goal
W_C1 ==
    \E id \in DOMAIN sessions :
        Continued(id) /\ prev[id].step = "Confirm" /\ sessions[id].step = "Goal"

\* C2: an answers field that is set stays set over every call.
C2_NeverCleared ==
    \A id \in DOMAIN prev :
        id \in DOMAIN sessions =>
            \A f \in AnswerFields :
                IsSome(prev[id].answers[f]) => IsSome(sessions[id].answers[f])

\* C2 as amended: goal, triggers, example_input, complexity and edge_cases
\* stay set once set; example_output is cleared only by a continue_session
\* call made at step Example.
C2_ClearedOnlyByExample ==
    \A id \in DOMAIN prev :
        id \in DOMAIN sessions =>
            /\ \A f \in AnswerFields \ {"example_output"} :
                   IsSome(prev[id].answers[f]) => IsSome(sessions[id].answers[f])
            /\ IsSome(prev[id].answers.example_output)
                 /\ IsNone(sessions[id].answers.example_output) =>
                   /\ Continued(id)
                   /\ prev[id].step = "Example"

\* C2 witness: on a second pass, an example without output text has
\* cleared the example_output of the first pass
W_C2 ==
    \E id \in DOMAIN sessions :
        /\ Continued(id) /\ prev[id].step = "Example"
        /\ IsSome(prev[id].answers.example_output)
        /\ IsNone(sessions[id].answers.example_output)
        /\ \A f \in AnswerFields \ {"example_output"} : IsSome(sessions[id].answers[f])

\* C3: calls of continue_session on one id exclude each other, and once
\* they have returned the session is what the same calls leave when run one
\* after the other: no update is lost.
C3_Serialized ==
    \A id \in DOMAIN sessions :
        /\ \A t, u \in Threads : Holds(t, id) /\ Holds(u, id) => t = u
        /\ (\A t \in Threads : ~Holds(t, id)) => sessions[id] = serial[id]

\* C3 witness: one call has run its arm on a session while another call on
\* the same id waits in get_mut
W_C3 ==
    \E t, u \in Threads :
        /\ t # u
        /\ pc[t] = "clone"
        /\ pc[u] = "get_mut"
        /\ frame[u].id = frame[t].id

\* C4: at Confirm, an input that is yes, y or confirm once trimmed and
\* lower-cased moves the session to Done, any other input moves it to Goal,
\* and the answers keep their values either way.
C4_Confirm ==
    \A id \in DOMAIN prev :
        Continued(id) /\ prev[id].step = "Confirm" =>
            /\ id \in DOMAIN sessions
            /\ sessions[id].step =
                   IF SaysYes(Unwrap(last.input)) THEN "Done" ELSE "Goal"
            /\ sessions[id].answers = prev[id].answers

\* C4 witness: " Y" at Confirm has finished a session
W_C4 ==
    \E id \in DOMAIN sessions :
        /\ Continued(id) /\ prev[id].step = "Confirm"
        /\ last.input = Some(<<" ", "Y">>)
        /\ sessions[id].step = "Done"

\* C5: a continue_session call on a session at Done succeeds and leaves its
\* step and its answers as they were.
C5_DoneAbsorbing ==
    \A id \in DOMAIN prev :
        Continued(id) /\ prev[id].step = "Done" =>
            /\ last.status = 200
            /\ id \in DOMAIN sessions
            /\ sessions[id].step = "Done"
            /\ sessions[id].answers = prev[id].answers
            /\ last.ret = Some(sessions[id])

\* C5 witness: a call was made on a session that was already at Done
W_C5 == \E id \in DOMAIN sessions : Continued(id) /\ prev[id].step = "Done"

\* C6: start with an initial input creates a session at Trigger whose goal
\* is that input, start without one a session at Goal with no goal; every
\* other answers field is unset.
C6_StartState ==
    last.op = "start" =>
        /\ last.id \in DOMAIN sessions
        /\ LET s == sessions[last.id]
           IN  /\ IsSome(last.input) => s.step = "Trigger" /\ s.answers.goal = last.input
               /\ IsNone(last.input) => s.step = "Goal" /\ s.answers.goal = None
               /\ \A f \in AnswerFields \ {"goal"} : s.answers[f] = None
               /\ last.ret = Some(s)

\* C6 witness: a session was started with an initial input
W_C6 == last.op = "start" /\ IsSome(last.input)

\* C7: start stores its session under an id that was not a key of the
\* store, leaves every stored session as it was, grows the store by one, and
\* returns the session under the id it is stored at.
C7_StartFresh ==
    last.op = "start" =>
        /\ last.id \notin DOMAIN prev
        /\ \A k \in DOMAIN prev : k \in DOMAIN sessions /\ sessions[k] = prev[k]
        /\ Cardinality(DOMAIN sessions) = Cardinality(DOMAIN prev) + 1
        /\ IsSome(last.ret)
        /\ Unwrap(last.ret).id = last.id
        /\ sessions[last.id] = Unwrap(last.ret)

\* C7 witness: a session was started while another one was stored
W_C7 == last.op = "start" /\ DOMAIN prev # {}

\* C8: continue_session on an id that is not in the store fails, creates no
\* session and changes none, and the handler answers with status 400.
C8_UnknownId ==
    last.op = "continue" /\ last.id \notin DOMAIN prev =>
        /\ last.ret = None
        /\ sessions = prev
        /\ last.status = 400

\* C8 witness: an unknown id was continued while sessions were stored
W_C8 == last.op = "continue" /\ last.id \notin DOMAIN prev /\ DOMAIN prev # {}

C10_KeepsFresh ==
    last.op = "cleanup" =>
        \A id \in DOMAIN prev :
            now - prev[id].created_at < last.max_age * TicksPerSec =>
                id \in DOMAIN sessions /\ sessions[id] = prev[id]

\* C10 witness: a sweep has kept a session that is under one second old
W_C10 ==
    /\ last.op = "cleanup" /\ last.max_age >= 1
    /\ \E id \in DOMAIN sessions :
           /\ id \in DOMAIN prev
           /\ now - sessions[id].created_at > 0
           /\ now - sessions[id].created_at < TicksPerSec

CiMatchAt(s, pat, p) ==
    /\ p + Len(pat) <= Len(s)
    /\ \A k \in 1..Len(pat) : LowerChar(s[p + k]) = pat[k]

\* The offsets from `from` on at which the marker pat stands in s
Markers(s, pat, from) == {p \in from..Len(s) : CiMatchAt(s, pat, p)}

Least(S) == CHOOSE p \in S : \A q \in S : p <= q

\* The text between the first "input:" marker and the next "output:"
\* marker behind it, or the end
TextAfterInputMarker(input) ==
    LET p == Least(Markers(input, P_input, 0))
        outs == Markers(input, P_output, p + 6)
    IN  IF outs = {} THEN SubSeq(input, p + 7, Len(input))
        ELSE SubSeq(input, p + 7, Least(outs))

AnsweredAt(step) ==
    /\ last.op = "continue" /\ 1 \in DOMAIN prev /\ prev[1].step = step

\* C12: an answer at Example that holds an "input:" marker in any case is
\* read by the marker rule, with or without "->" in it: the call succeeds,
\* example_input is the (trimmed) text from that marker to the next
\* "output:" marker behind it or to the end, and example_output is the
\* (trimmed, non-empty) text behind an "output:" marker, unset without one.
C12_MarkerRule ==
    AnsweredAt("Example") /\ Markers(Unwrap(last.input), P_input, 0) # {} =>
        LET input == Unwrap(last.input)
            outs == Markers(input, P_output, 0)
            a == sessions[1].answers
        IN  /\ last.status = 200
            /\ a.example_input = Some(Trim(TextAfterInputMarker(input)))
            /\ IF outs = {} THEN a.example_output = None
               ELSE \E o \in outs :
                        a.example_output =
                            NonEmpty(Trim(SubSeq(input, o + 8, Len(input))))
\* C13: an answer at Example with neither an "input:" marker nor "->" is
\* stored whole, less its leading and trailing whitespace, as example_input,
\* and example_output is unset.
C13_WholeInputTrimmed ==
    LET input == Unwrap(last.input)
    IN  /\ AnsweredAt("Example")
        /\ Markers(input, P_input, 0) = {}
        /\ Markers(input, P_arrow, 0) = {}
        => /\ last.status = 200
           /\ sessions[1].answers.example_input = Some(Trim(input))
           /\ sessions[1].answers.example_output = None

\* C14: an answer at Example without an "input:" marker and with "->" is
\* cut at the first "->": example_input is the trimmed text before it,
\* example_output the trimmed text behind it, unset when that is empty.
C14_ArrowRule ==
    LET input == Unwrap(last.input)
        arrows == Markers(input, P_arrow, 0)
    IN  /\ AnsweredAt("Example")
        /\ Markers(input, P_input, 0) = {}
        /\ arrows # {}
        => LET ahead == Trim(SubSeq(input, 1, Least(arrows)))
               behind == Trim(SubSeq(input, Least(arrows) + 3, Len(input)))
               a == sessions[1].answers
           IN  /\ last.status = 200
               /\ a.example_input = Some(ahead)
               /\ a.example_output = IF behind = <<>> THEN None ELSE Some(behind)

\* C14 witness: an answer with two arrows and blanks around its texts
W_C14 ==
    /\ AnsweredAt("Example")
    /\ Unwrap(last.input) = <<" ", "a", "-", ">", "-", ">">>
    /\ sessions[1].answers.example_input = Some(<<"a">>)
    /\ sessions[1].answers.example_output = Some(P_arrow)

\* ---- the Complexity arm
HasWord(input, pat) == Markers(input, pat, 0) # {}

\* C15: at Complexity an answer that holds "simple" or "text" in any case
\* is Simple even when it also holds "complex", "script" or "template";
\* failing that, one that holds "complex", "script" or "template" is
\* Complex; every other answer is Simple. The step becomes EdgeCases.
C15_Precedence ==
    AnsweredAt("Complexity") =>
        LET input == Unwrap(last.input)
            simple == HasWord(input, P_simple) \/ HasWord(input, P_text)
            complex == \/ HasWord(input, P_complex)
                       \/ HasWord(input, P_script)
                       \/ HasWord(input, P_template)
        IN  /\ last.status = 200
            /\ sessions[1].step = "EdgeCases"
            /\ sessions[1].answers.complexity =
                   Some(IF simple THEN "Simple"
                        ELSE IF complex THEN "Complex" ELSE "Simple")

\* C15 witness: an answer with a keyword of each kind has been classified
W_C15 ==
    /\ AnsweredAt("Complexity")
    /\ HasWord(Unwrap(last.input), P_script)
    /\ HasWord(Unwrap(last.input), P_text)
    /\ sessions[1].answers.complexity = Some("Simple")

\* ---- the Trigger arm
SeparatorChars == {",", "\n", ";"}

\* The offsets at which a piece begins: the start and behind each separator
Cuts(input) == {0} \cup {i \in 1..Len(input) : input[i] \in SeparatorChars}

\* The piece that begins at cut c, trimmed
PieceAt(input, c) ==
    LET later == {d \in Cuts(input) \cup {Len(input) + 1} : d > c}
    IN  Trim(SubSeq(input, c + 1, Least(later) - 1))

\* The non-empty trimmed pieces in the order of the input
Pieces(input) ==
    LET kept == {c \in Cuts(input) : PieceAt(input, c) # <<>>}
        nth(i) == CHOOSE c \in kept : Cardinality({d \in kept : d < c}) = i - 1
    IN  [i \in 1..Cardinality(kept) |-> PieceAt(input, nth(i))]

\* C16: at Trigger the stored triggers are the pieces of the answer between
\* commas, newlines and semicolons, each trimmed, the empty ones dropped, in
\* the order of the answer and with duplicates kept; no stored trigger is
\* empty or begins or ends with whitespace; the step becomes Example.
C16_Triggers ==
    AnsweredAt("Trigger") =>
        LET triggers == Unwrap(sessions[1].answers.triggers)
        IN  /\ last.status = 200
            /\ sessions[1].step = "Example"
            /\ IsSome(sessions[1].answers.triggers)
            /\ triggers = Pieces(Unwrap(last.input))
            /\ \A i \in 1..Len(triggers) :
                   /\ triggers[i] # <<>>
                   /\ triggers[i][1] \notin WhiteSpace
                   /\ triggers[i][Len(triggers[i])] \notin WhiteSpace

\* C16 witness: an answer with an empty piece and a padded piece, twice the
\* same trigger
W_C16 ==
    /\ AnsweredAt("Trigger")
    /\ Unwrap(last.input) = <<" ", "a", ",", "a">>
    /\ sessions[1].answers.triggers = Some(<< <<"a">>, <<"a">> >>)

\* ---- the Goal and EdgeCases arms
OtherAnswersKept(f) ==
    \A g \in AnswerFields \ {f} : sessions[1].answers[g] = prev[1].answers[g]

\* C17: at Goal the answer is stored as it is, untrimmed, as goal, in place
\* of a goal of an earlier pass, no other answers field changes and the step
\* becomes Trigger; at EdgeCases the answer is stored as it is as
\* edge_cases, no other answers field changes and the step becomes Confirm.
C17_Verbatim ==
    /\ AnsweredAt("Goal") =>
           /\ last.status = 200
           /\ sessions[1].answers.goal = last.input
           /\ OtherAnswersKept("goal")
           /\ sessions[1].step = "Trigger"
    /\ AnsweredAt("EdgeCases") =>
           /\ last.status = 200
           /\ sessions[1].answers.edge_cases = last.input
           /\ OtherAnswersKept("edge_cases")
           /\ sessions[1].step = "Confirm"

\* C17 witness: on the second pass a goal with blanks around it has taken
\* the place of the goal of the first pass
W_C17 ==
    /\ AnsweredAt("Goal")
    /\ IsSome(prev[1].answers.goal)
    /\ IsSome(prev[1].answers.edge_cases)
    /\ sessions[1].answers.goal = Some(<<" ", "a", " ">>)

\* ---- the registry
\* What get returns for a skill, or its error
Got(fs, name) == GetSkill(fs, name)

\* The parts of a stored skill that a call on another request must keep
Content(skill) ==
    [description |-> skill.meta.description, body |-> skill.body,
     scripts |-> skill.scripts, references |-> skill.references,
     assets |-> skill.assets]

\* C18: after a create that succeeded, get on the name returns a skill with
\* the name and the description of the request; a create on a name that is
\* stored fails with a bad request and leaves description, body, scripts,
\* references and assets of the stored skill as they were.
C18_CreateThenGet ==
    reply.op = "create" =>
        /\ reply.res.ok =>
               /\ Got(skills_dir, reply.name).ok
               /\ Got(skills_dir, reply.name).val.meta.name = reply.req.name
               /\ Got(skills_dir, reply.name).val.meta.description =
                      reply.req.description
        /\ Got(before, reply.name).ok =>
               /\ ~reply.res.ok
               /\ reply.res.err = "BadRequest"
               /\ Got(skills_dir, reply.name).ok
               /\ Content(Got(skills_dir, reply.name).val) =
                      Content(Got(before, reply.name).val)

Listed(fs) == {ListSkills(fs)[i].name : i \in 1..Len(ListSkills(fs))}

\* C19: after a delete that succeeded, get on the name fails with NotFound
\* and list does not hold the name; a create on a name that was deleted and
\* not created since fares as it does on a registry that never held the
\* name; a delete on a (valid) name without a directory fails with NotFound
\* and changes nothing.
C19_DeleteThenGone ==
    /\ reply.op = "delete" /\ reply.res.ok =>
           /\ ~Got(skills_dir, reply.name).ok
           /\ Got(skills_dir, reply.name).err = "NotFound"
           /\ reply.name \notin Listed(skills_dir)
    /\ /\ reply.op = "delete"
       /\ ValidateSkillName(reply.name)
       /\ ~DirExists(before, reply.name)
       => /\ ~reply.res.ok
          /\ reply.res.err = "NotFound"
          /\ skills_dir = before
    /\ /\ reply.op = "create"
       /\ reply.name \in deleted
       /\ ~Got(before, reply.name).ok
       => reply.res.ok = (\E o \in CreateSkill(<< >>, reply.req) : o.res.ok)

\* C19 witness: a name that was deleted has been created again
W_C19 ==
    /\ reply.op = "create"
    /\ reply.res.ok
    /\ reply.name \in deleted
    /\ reply.name \in Listed(skills_dir)

\* The fields that an update request leaves out
Absent(req) == {f \in DOMAIN req : IsNone(req[f])}

\* C20: an update keeps the persisted value of every field its request
\* leaves out, and the name; one with only the description set changes the
\* persisted description to the one given and leaves body, scripts,
\* references and assets as they were.
C20_UpdateKeepsAbsent ==
    reply.op = "update" /\ Got(before, reply.name).ok =>
        LET old == Got(before, reply.name).val
            new == Got(skills_dir, reply.name)
        IN  /\ new.ok
            /\ new.val.meta.name = old.meta.name
            /\ \A f \in Absent(reply.req) : Content(new.val)[f] = Content(old)[f]
            /\ reply.res.ok /\ IsSome(reply.req.description) =>
                   new.val.meta.description = Unwrap(reply.req.description)

\* list holds exactly the names of S, in ascending order and each once
SortedListOf(list, S) ==
    /\ {list[i] : i \in 1..Len(list)} = S
    /\ \A i \in 1..(Len(list) - 1) : StrLess(list[i], list[i + 1])

\* C21: after an update that succeeded, the list of every kind of file that
\* the request holds is exactly the sorted set of the file names in the
\* request, so that a file of the old set is gone unless the request names
\* it, and the list of every kind the request leaves out is as it was.
C21_UpdateReplaces ==
    reply.op = "update" /\ reply.res.ok =>
        \A k \in 1..Len(FileKinds) :
            LET kind == FileKinds[k]
                new == Got(skills_dir, reply.name).val[kind]
                old == Got(before, reply.name).val[kind]
            IN  IF IsSome(reply.req[kind])
                THEN /\ SortedListOf(new, DOMAIN Unwrap(reply.req[kind]))
                     /\ \A i \in 1..Len(old) :
                            old[i] \notin DOMAIN Unwrap(reply.req[kind]) =>
                                \A j \in 1..Len(new) : new[j] # old[i]
                ELSE new = old

\* C21 witness: an update with scripts has dropped a script of the old set
W_C21 ==
    /\ reply.op = "update"
    /\ reply.res.ok
    /\ IsSome(reply.req.scripts)
    /\ \E i \in 1..Len(Got(before, reply.name).val.scripts) :
           Got(before, reply.name).val.scripts[i] \notin
               DOMAIN Unwrap(reply.req.scripts)
    /\ Len(Got(skills_dir, reply.name).val.references) > 0

\* C22: the document made from a metadata block with a valid name and a
\* valid description and from a body decodes, to that metadata block and to
\* the body without the whitespace around it.
C22_RoundTrip ==
    /\ reply.op = "parse"
    /\ ValidateSkillName(reply.req.meta.name)
    /\ ValidateDescription(reply.req.meta.description)
    => /\ reply.res.ok
       /\ reply.res.val.meta = reply.req.meta
       /\ reply.res.val.body = Trim(reply.req.body)

\* ---- the validators
Alphanumeric == LowerLetters \cup Digits

\* One or more runs of lowercase letters and digits, separated by single
\* hyphens: s from index i on, at the start of a run and inside one
RECURSIVE RunStart(_, _), InRun(_, _)
RunStart(s, i) == i <= Len(s) /\ s[i] \in Alphanumeric /\ InRun(s, i + 1)
InRun(s, i) ==
    \/ i > Len(s)
    \/ s[i] \in Alphanumeric /\ InRun(s, i + 1)
    \/ s[i] = "-" /\ RunStart(s, i + 1)

WellFormedName(name) ==
    Len(name) >= 1 /\ Len(name) <= 64 /\ RunStart(name, 1)

\* The defects of a name that the claim lists
DefectiveName(name) ==
    \/ name = <<>>
    \/ Len(name) > 64
    \/ \E i \in 1..Len(name) : name[i] \in {"A", " ", "_", "."}
    \/ name # <<>> /\ (name[1] = "-" \/ name[Len(name)] = "-")
    \/ \E i \in 1..(Len(name) - 1) : name[i] = "-" /\ name[i + 1] = "-"

RejectedFor(why) ==
    ~reply.res.ok /\ reply.res.err = "BadRequest" /\ reply.res.why = why

\* C23: create, get, update and delete turn a name down as invalid exactly
\* when it is not 1 to 64 bytes of runs of lowercase letters and digits
\* separated by single hyphens; every name with one of the listed defects
\* is turned down; and a call whose name is turned down fails with a bad
\* request and leaves the store as it was.
C23_NameGrammar ==
    reply.op \in {"create", "get", "update", "delete"} =>
        /\ RejectedFor("name") <=> ~WellFormedName(reply.name)
        /\ DefectiveName(reply.name) => RejectedFor("name")
        /\ RejectedFor("name") => skills_dir = before

\* C23 witness: update has turned down a name with two hyphens in a row
\* between letters
W_C23 ==
    /\ reply.op = "update"
    /\ \E i \in 1..(Len(reply.name) - 1) :
           reply.name[i] = "-" /\ reply.name[i + 1] = "-"
    /\ reply.name[1] = "a"
    /\ reply.name[Len(reply.name)] = "a"
    /\ RejectedFor("name")

\* The description that a create or an update call gives, if any
GivenDescription ==
    IF reply.op = "create" THEN Some(reply.req.description)
    ELSE IF reply.op = "update" THEN reply.req.description
    ELSE None

\* C24: create, and update of a stored skill, turn a description down
\* exactly when it has no byte or more than 1024 bytes; a call whose
\* description is turned down fails with a bad request and persists nothing.
C24_DescriptionLength ==
    /\ IsSome(GivenDescription)
    /\ ValidateSkillName(reply.name)
    /\ reply.op = "update" => Got(before, reply.name).ok
    => /\ RejectedFor("description") <=>
              ~(Len(Unwrap(GivenDescription)) \in 1..1024)
       /\ RejectedFor("description") => skills_dir = before

\* C24 witness: a description of 1024 bytes has been stored by create
W_C24 ==
    /\ reply.op = "create"
    /\ Len(reply.req.description) = 1024
    /\ reply.res.ok
    /\ Got(skills_dir, reply.name).val.meta.description = reply.req.description

\* ---- file names
\* The file names that a create or an update request gives, of every kind
GivenFileNames ==
    IF reply.op = "create"
    THEN UNION {DOMAIN reply.req[FileKinds[k]] : k \in 1..Len(FileKinds)}
    ELSE IF reply.op = "update"
    THEN UNION {IF IsSome(reply.req[FileKinds[k]])
                THEN DOMAIN Unwrap(reply.req[FileKinds[k]]) ELSE {} :
                    k \in 1..Len(FileKinds)}
    ELSE {}

\* A file name that is empty or holds '/', '\' or '..'
BadFileName(f) ==
    \/ f = <<>>
    \/ \E i \in 1..Len(f) : f[i] \in {"/", "\\"}
    \/ \E i \in 1..(Len(f) - 1) : f[i] = "." /\ f[i + 1] = "."

\* A call that comes as far as its files: a create of a new skill, or an
\* update of a stored one, with a valid name and description
ReachesFiles ==
    /\ reply.op \in {"create", "update"}
    /\ ~RejectedFor("name")
    /\ ~RejectedFor("description")
    /\ reply.op = "create" => ~DirExists(before, reply.name)
    /\ reply.op = "update" => Got(before, reply.name).ok

\* Every file under skills_dir lies in the scripts, references or assets
\* subdirectory of its skill
NoFileOutside ==
    \A n \in DOMAIN skills_dir : \A k \in 1..Len(FileKinds) :
        \A f \in DOMAIN skills_dir[n][FileKinds[k]] :
            JoinPath(<<n, FileKinds[k]>>, f) = <<n, FileKinds[k], f>>

PassedOver(fs, n) ==
    \/ ~WellFormedName(n)
    \/ IsNone(fs[n].md)
    \/ Len(SplitN3(Unwrap(fs[n].md), P_dashes)) < 3
    \/ ~FromYaml(Trim(SplitN3(Unwrap(fs[n].md), P_dashes)[2])).ok

\* C26: list succeeds whatever skills_dir holds; its summaries ascend by
\* name; it passes over every directory whose name is not valid, whose
\* document is missing, has fewer than three parts or has a metadata block
\* that does not decode; and it holds one summary, name and description of
\* the document, for every other directory.
C26_ListSkips ==
    reply.op = "list" =>
        LET list == reply.res.val
            kept == {n \in DOMAIN skills_dir : ~PassedOver(skills_dir, n)}
        IN  /\ reply.res.ok
            /\ \A i, j \in 1..Len(list) :
                   i < j => ~StrLess(list[j].name, list[i].name)
            /\ Len(list) = Cardinality(kept)
            /\ \A n \in kept : \E i \in 1..Len(list) :
                   /\ list[i].name = Got(skills_dir, n).val.meta.name
                   /\ list[i].description =
                          Got(skills_dir, n).val.meta.description

\* C26 witness: list has given two skills and passed over a directory of
\* each of the four sorts
W_C26 ==
    /\ reply.op = "list"
    /\ Len(reply.res.val) = 2
    /\ reply.res.val[1].name # reply.res.val[2].name
    /\ \E n \in DOMAIN skills_dir : ~WellFormedName(n)
    /\ \E n \in DOMAIN skills_dir : IsNone(skills_dir[n].md)
    /\ \E n \in DOMAIN skills_dir :
           /\ IsSome(skills_dir[n].md)
           /\ Len(SplitN3(Unwrap(skills_dir[n].md), P_dashes)) < 3
    /\ \E n \in DOMAIN skills_dir :
           /\ IsSome(skills_dir[n].md)
           /\ Len(SplitN3(Unwrap(skills_dir[n].md), P_dashes)) = 3
           /\ ~Got(skills_dir, n).ok
           /\ WellFormedName(n)

\* ---- searching
\* q stands somewhere in s when the case of the letters is left aside
CiContains(s, q) ==
    \E p \in 0..Len(s) :
        /\ p + Len(q) <= Len(s)
        /\ \A k \in 1..Len(q) : LowerChar(s[p + k]) = LowerChar(q[k])

\* C27: search gives the summaries of list whose name or description
\* holds the query, case aside, in the order of list, and so all of list
\* for the empty query.
C27_SearchFilters ==
    reply.op = "search" =>
        LET list == ListSkills(skills_dir)
            found == reply.res.val
            hits == {i \in 1..Len(list) :
                        \/ CiContains(list[i].name, reply.req)
                        \/ CiContains(list[i].description, reply.req)}
            nth(k) == CHOOSE i \in hits :
                          Cardinality({j \in hits : j < i}) = k - 1
        IN  /\ reply.res.ok
            /\ Len(found) = Cardinality(hits)
            /\ \A k \in 1..Len(found) : found[k] = list[nth(k)]
            /\ reply.req = <<>> => found = list

\* C27 witness: of two skills, a query in lower case has found the one
\* whose description holds it in upper case
W_C27 ==
    /\ reply.op = "search"
    /\ reply.req = <<"d">>
    /\ Len(ListSkills(skills_dir)) = 2
    /\ Len(reply.res.val) = 1
    /\ reply.res.val[1].description = <<"D">>

\* ---- what create and update return
\* The body that a create or an update request gives, if any
GivenBody ==
    IF reply.op = "create" THEN Some(reply.req.body)
    ELSE IF reply.op = "update" THEN reply.req.body
    ELSE None

\* C28: the skill that a successful create or update returns is the one
\* that get reads from the store right after; its body is the body of the
\* request without the whitespace around it; and its list of each kind is
\* the ascending list, each name once, of the files that the store holds
\* of that kind, which for the kinds in the request are the files of the
\* request.
C28_ReturnsStored ==
    reply.op \in {"create", "update"} /\ reply.res.ok =>
        /\ Got(skills_dir, reply.name) = reply.res
        /\ IsSome(GivenBody) => reply.res.val.body = Trim(Unwrap(GivenBody))
        /\ \A k \in 1..Len(FileKinds) :
               LET kind == FileKinds[k]
               IN  /\ SortedListOf(reply.res.val[kind],
                                   DOMAIN skills_dir[reply.name][kind])
                   /\ reply.op = "create" =>
                          SortedListOf(reply.res.val[kind],
                                       DOMAIN reply.req[kind])

\* ---- the categories of errors
\* The document of `name` is there and cannot be decoded
Undecodable(fs, name) ==
    /\ DirExists(fs, name)
    /\ IsSome(fs[name].md)
    /\ \/ Len(SplitN3(Unwrap(fs[name].md), P_dashes)) < 3
       \/ ~FromYaml(Trim(SplitN3(Unwrap(fs[name].md), P_dashes)[2])).ok

\* There is no skill under `name`: for get and update no document, for
\* delete no directory
NoSkill(fs, op, name) ==
    IF op = "delete" THEN ~DirExists(fs, name)
    ELSE ~DirExists(fs, name) \/ IsNone(fs[name].md)

\* What in the call is invalid: the name, the description, a file name, a
\* create on a name that is taken
InvalidCall ==
    \/ reply.op \in {"create", "get", "update", "delete"}
           /\ ~WellFormedName(reply.name)
    \/ IsSome(GivenDescription)
           /\ ~(Len(Unwrap(GivenDescription)) \in 1..1024)
    \/ \E f \in GivenFileNames : BadFileName(f)
    \/ reply.op = "create" /\ DirExists(before, reply.name)

AllSteps == StepOrder \o <<"Done">>

\* next applied n times
RECURSIVE NextTimes(_, _)
NextTimes(step, n) == IF n = 0 THEN step ELSE NextTimes(StepNext(step), n - 1)

\* C30: next is defined on each of the seven steps and gives a step; a step
\* other than Done goes to the step right after it in the order Goal,
\* Trigger, Example, Complexity, EdgeCases, Confirm, Done, and Done goes to
\* Done; six applications of next lead from any step, the step of any
\* session included, to Done.
C30_NextOrder ==
    /\ \A i \in 1..Len(AllSteps) :
           /\ StepNext(AllSteps[i]) \in FactorySteps
           /\ i < Len(AllSteps) => StepNext(AllSteps[i]) = AllSteps[i + 1]
           /\ i = Len(AllSteps) => StepNext(AllSteps[i]) = AllSteps[i]
           /\ NextTimes(AllSteps[i], Len(StepOrder)) = "Done"
    /\ {AllSteps[i] : i \in 1..Len(AllSteps)} = FactorySteps
    /\ \A id \in DOMAIN sessions :
           /\ sessions[id].step \in FactorySteps
           /\ NextTimes(sessions[id].step, Len(StepOrder)) = "Done"
           /\ Continued(id) /\ prev[id].step \notin {"Confirm", "Done"}
                  => sessions[id].step = StepNext(prev[id].step)

\* C30 witness: a session that started at Goal has been taken by six
\* answers, each advancing it by next, to Done
W_C30 ==
    \E id \in DOMAIN sessions :
        /\ Continued(id)
        /\ calls = Len(AllSteps)
        /\ prev[id].step = "Confirm"
        /\ sessions[id].step = NextTimes("Goal", Len(StepOrder))

\* C31: the skill that continue_factory returns for a session at Done has a
\* name that validate_skill_name accepts, whatever the goal was.
C31_SanitizedIsValid ==
    last.op = "continue" /\ IsSome(last.skill) =>
        ValidateSkillName(Unwrap(last.skill).name)

\* C32: the answer to a continue_factory call has done set exactly when the
\* session stands at Done after the call, and carries a skill exactly when
\* done is set, also when the session was at Done before the call; the
\* answer to start_factory has done unset and no skill.
C32_DoneAndSkill ==
    /\ last.op = "start" => last.status = 200 /\ ~last.done /\ IsNone(last.skill)
    /\ last.op = "continue" /\ last.status = 200 =>
           /\ last.done <=> sessions[last.id].step = "Done"
           /\ IsSome(last.skill) <=> last.done

\* C32 witness: a call on a session that was at Done already was answered
\* with done set and a skill
W_C32 ==
    /\ last.op = "continue" /\ last.status = 200
    /\ last.id \in DOMAIN prev /\ prev[last.id].step = "Done"
    /\ last.done /\ IsSome(last.skill)

\* The answers a session has at Confirm and at Done
AskedFields == AnswerFields \ {"example_output"}

\* C33: a session at Confirm or at Done has its goal, triggers,
\* example_input, complexity and edge_cases set, however it was started and
\* however often it was rejected at Confirm.
C33_AnswersComplete ==
    \A id \in DOMAIN sessions :
        sessions[id].step \in {"Confirm", "Done"} =>
            \A f \in AskedFields : IsSome(sessions[id].answers[f])

\* C33 witness: a session that was rejected at Confirm has come to Confirm
\* again
W_C33 ==
    \E id \in DOMAIN sessions :
        /\ Continued(id)
        /\ prev[id].step = "EdgeCases" /\ IsSome(prev[id].answers.edge_cases)
        /\ sessions[id].step = "Confirm"

\* The calls a session at `step` still needs to reach Done when every one of
\* them advances it
CallsToDone(step) == Len(AllSteps) - CHOOSE i \in 1..Len(AllSteps) : AllSteps[i] = step

\* C34: a session starts six calls from Done, five when it is started with
\* an initial input; every continue_session call on a session that is not at
\* Done, with an affirmative input if it is at Confirm, brings it one call
\* closer, so that six (five) calls reach Done; and a session comes to Done
\* only by an affirmative input at Confirm.
C34_ReachesDone ==
    /\ last.op = "start" =>
           CallsToDone(sessions[last.id].step) = IF IsSome(last.input) THEN 5 ELSE 6
    /\ \A id \in DOMAIN prev \cap DOMAIN sessions :
           /\ /\ Continued(id)
              /\ prev[id].step # "Done"
              /\ prev[id].step = "Confirm" => SaysYes(Unwrap(last.input))
              => CallsToDone(sessions[id].step) = CallsToDone(prev[id].step) - 1
           /\ sessions[id].step = "Done" /\ prev[id].step # "Done" =>
                  /\ Continued(id)
                  /\ prev[id].step = "Confirm"
                  /\ SaysYes(Unwrap(last.input))

\* cleanup_expired has removed the session of id
Removed(id) == id \in issued /\ id \notin DOMAIN sessions

\* C35: while a continue_session call holds a session, cleanup_expired does
\* not remove it, and the call returns the session as its arm left it; a
\* call that comes to get_mut after the removal fails with session not
\* found, and a session that was removed is never stored again.
C35_AtomicWithCleanup ==
    /\ [](\A t \in Threads, id \in Ids : Holds(t, id) => id \in DOMAIN sessions)
    /\ [][/\ \A id \in Ids : Removed(id) => Removed(id)'
          /\ \A t \in Threads :
                 pc[t] = "get_mut" /\ pc'[t] # "get_mut" =>
                     IF Removed(frame[t].id)
                     THEN /\ pc'[t] = "idle"
                          /\ last'.op = "continue" /\ last'.id = frame[t].id
                          /\ last'.status = 400
                          /\ sessions' = sessions
                     ELSE pc'[t] = "match"
          /\ \A t \in Threads :
                 pc[t] = "clone" /\ pc'[t] = "idle" =>
                     /\ last'.status = 200
                     /\ last'.ret = Some(sessions'[frame[t].id])
                     /\ sessions'[frame[t].id] = serial[frame[t].id]]_vars

\* C35 witness: a cleanup_expired that is to remove the session waits for it
\* while a continue_session call holds it
W_C35 ==
    \E t, u \in Threads :
        /\ pc[t] = "retain" /\ frame[t].max_age = 0 /\ 1 \notin frame[t].seen
        /\ pc[u] = "arm" /\ frame[u].id = 1

\* C36: a continue_session call leaves every other stored session as it was
\* and keeps the id and created_at of its own session; a session is stamped
\* with the time of its start, so its age is counted from there.
C36_OthersAndAgeKept ==
    /\ last.op = "start" =>
           sessions[last.id].id = last.id /\ sessions[last.id].created_at = now
    /\ last.op = "continue" =>
           /\ DOMAIN sessions = DOMAIN prev
           /\ \A id \in DOMAIN prev :
                  /\ id # last.id => sessions[id] = prev[id]
                  /\ sessions[id].id = prev[id].id
                  /\ sessions[id].created_at = prev[id].created_at

\* C36 witness: a session older than the other stored session has been
\* continued some time after its start
W_C36 ==
    \E id, other \in DOMAIN prev :
        /\ Continued(id) /\ last.status = 200
        /\ sessions[id].step # prev[id].step
        /\ other # id
        /\ sessions[id].created_at < sessions[other].created_at
        /\ sessions[other].created_at < now

\* The call was turned down for its name, its description or a file name
ValidationError ==
    /\ reply.status = 400
    /\ \/ RejectedFor("name")
       \/ RejectedFor("description")
       \/ RejectedFor("filename")

\* C37: a create that is turned down for its name, its description or a file
\* name leaves the registry as it was: get on the name and list answer as
\* before, and if the name was free a create with valid arguments succeeds
\* on it.
C37_FailedCreateChangesNothing ==
    reply.op = "create" /\ ValidationError =>
        /\ Got(skills_dir, reply.name) = Got(before, reply.name)
        /\ ListSkills(skills_dir) = ListSkills(before)
        /\ WellFormedName(reply.name) /\ ~DirExists(before, reply.name) =>
               \A o \in CreateSkill(skills_dir,
                                   CreateReq(reply.name, D_plain, B_plain, {}, {}, {})) :
                   o.res.ok

\* C38: an update that is turned down for its description or a file name
\* leaves the stored skill as it was: get on the name answers as before.
C38_FailedUpdateChangesNothing ==
    reply.op = "update" /\ ValidationError /\ Got(before, reply.name).ok =>
        Got(skills_dir, reply.name) = Got(before, reply.name)

\* Every directory of fs holds a skill that get returns under the name of
\* the directory: what create, update and delete calls that succeed leave
OnlySkills(fs) ==
    \A n \in DOMAIN fs : Got(fs, n).ok /\ Got(fs, n).val.meta.name = n

SummariesOf(list) == {list[i] : i \in 1..Len(list)}

\* The summaries `old` after the last call, had it done what it answered
Expected(old) ==
    IF ~reply.res.ok THEN old
    ELSE IF reply.op = "create"
    THEN old \cup {[name |-> reply.req.name, description |-> reply.req.description]}
    ELSE IF reply.op = "delete"
    THEN {s \in old : s.name # reply.name}
    ELSE {IF s.name = reply.name /\ IsSome(reply.req.description)
          THEN [s EXCEPT !.description = Unwrap(reply.req.description)]
          ELSE s : s \in old}

\* What list returns, against what it returned before the call
ListFollows(old, new) ==
    /\ \A i \in 1..(Len(new) - 1) : StrLess(new[i].name, new[i + 1].name)
    /\ \A i \in 1..Len(new) :
           /\ Got(skills_dir, new[i].name).ok
           /\ Summary(Got(skills_dir, new[i].name).val) = new[i]
    /\ SummariesOf(new) = Expected(SummariesOf(old))

\* C39: on a registry that holds only what earlier calls created, list
\* after a create, update or delete holds one summary for every name it
\* held before, without the name of a delete that succeeded and with the
\* name of a create that succeeded, and nothing else; every summary has
\* the name under which get returns its skill and the description that the
\* last create or update that succeeded gave.
C39_ListIsWhatWasCreated ==
    reply.op \in {"create", "update", "delete"} /\ OnlySkills(before) =>
        ListFollows(ListSkills(before), ListSkills(skills_dir))

\* The names a call can be asked about, stored or not
KnownNames ==
    DOMAIN before \cup DOMAIN skills_dir \cup SkillNames
        \cup {BadSkillName, <<"c">>, <<"d">>, <<"e">>}

\* C40: a create, update or delete on one name, answered with success or
\* with an error, leaves what get returns for every other name as it was
\* before the call: the same skill or the same error.
C40_OtherNamesUnchanged ==
    reply.op \in {"create", "update", "delete"} =>
        \A n \in KnownNames \ {reply.name} :
            /\ Got(skills_dir, n) = Got(before, n)
            /\ DirExists(skills_dir, n) = DirExists(before, n)

\* A delete succeeded on one name while another name holds a skill
W_C40 ==
    /\ reply.op = "delete" /\ reply.res.ok
    /\ \E n \in KnownNames \ {reply.name} : Got(before, n).ok
====
